---------------------------- MODULE Spec2Model ----------------------------
(***************************************************************************)
(* kde-browser-picker: browser/profile discovery, the profile registry and *)
(* the secure launch executor (BrowserDetector, ProfileManager,            *)
(* ConfigManager).                                                         *)
(*                                                                         *)
(* A QString is a sequence of characters; a character is a one-character   *)
(* string, except "NUL" (QChar(0)), "LF" (newline), "TAB", "BACKTICK".     *)
(* Browser ids and executable paths are never inspected character by       *)
(* character by the code and are plain strings.                            *)
(***************************************************************************)
EXTENDS Integers, Sequences, FiniteSets, TLC

(***************************************************************************)
(* Characters                                                              *)
(***************************************************************************)
LowerLetters ==
    {"a","b","c","d","e","f","g","h","i","j","k","l","m",
     "n","o","p","q","r","s","t","u","v","w","x","y","z"}

UpperLetters ==
    {"A","B","C","D","E","F","G","H","I","J","K","L","M",
     "N","O","P","Q","R","S","T","U","V","W","X","Y","Z"}

Digits == {"0","1","2","3","4","5","6","7","8","9"}

\* QChar::isSpace, as used by QString::trimmed
SpaceChars == {" ", "LF", "TAB"}

\* the character class of dangerousChars: ; | backtick $ ( ) { } [ ] < >
DangerousChars == {";", "|", "BACKTICK", "$", "(", ")", "{", "}", "[", "]", "<", ">"}

\* the character class of validProfile / invalidChars: [a-zA-Z0-9 ._\-]
ProfileChars == LowerLetters \cup UpperLetters \cup Digits \cup {" ", ".", "_", "-"}

IsProfileChar(c) == c \in ProfileChars

(***************************************************************************)
(* QString helpers                                                         *)
(***************************************************************************)
\* QString::remove(QChar)
RemoveChar(s, ch) == SelectSeq(s, LAMBDA c : c # ch)

RECURSIVE TrimLeft(_)
TrimLeft(s) ==
    IF s # <<>> /\ Head(s) \in SpaceChars THEN TrimLeft(Tail(s)) ELSE s

RECURSIVE TrimRight(_)
TrimRight(s) ==
    IF s # <<>> /\ s[Len(s)] \in SpaceChars
    THEN TrimRight(SubSeq(s, 1, Len(s) - 1))
    ELSE s

\* QString::trimmed
Trimmed(s) == TrimRight(TrimLeft(s))

\* QString::contains(const QString&)
Contains(s, sub) ==
    \E i \in 1..(Len(s) - Len(sub) + 1) : SubSeq(s, i, i + Len(sub) - 1) = sub

\* QString::toLower on the letters of a scheme
LowerOf(c) ==
    CASE c = "A" -> "a" [] c = "B" -> "b" [] c = "C" -> "c" [] c = "D" -> "d"
      [] c = "E" -> "e" [] c = "F" -> "f" [] c = "G" -> "g" [] c = "H" -> "h"
      [] c = "I" -> "i" [] c = "J" -> "j" [] c = "K" -> "k" [] c = "L" -> "l"
      [] c = "M" -> "m" [] c = "N" -> "n" [] c = "O" -> "o" [] c = "P" -> "p"
      [] c = "Q" -> "q" [] c = "R" -> "r" [] c = "S" -> "s" [] c = "T" -> "t"
      [] c = "U" -> "u" [] c = "V" -> "v" [] c = "W" -> "w" [] c = "X" -> "x"
      [] c = "Y" -> "y" [] c = "Z" -> "z" [] OTHER -> c

ToLower(s) == [i \in 1..Len(s) |-> LowerOf(s[i])]

\* first index of a character satisfying Test, 0 when there is none
RECURSIVE IndexFrom(_, _, _)
IndexFrom(s, i, chars) ==
    IF i > Len(s) THEN 0
    ELSE IF s[i] \in chars THEN i
    ELSE IndexFrom(s, i + 1, chars)

IndexOf(s, chars) == IndexFrom(s, 1, chars)

RECURSIVE LastIndexFrom(_, _, _)
LastIndexFrom(s, i, chars) ==
    IF i < 1 THEN 0
    ELSE IF s[i] \in chars THEN i
    ELSE LastIndexFrom(s, i - 1, chars)

LastIndexOf(s, chars) == LastIndexFrom(s, Len(s), chars)

(***************************************************************************)
(* QUrl(url) in tolerant mode, as far as isValidUrl reads it: the scheme   *)
(* and isValid().                                                          *)
(***************************************************************************)
\* scheme = ALPHA *( ALPHA / DIGIT / "+" / "-" / "." ), not empty
QUrlSchemeOk(s) ==
    /\ s # <<>>
    /\ \A i \in 1..Len(s) :
          \/ s[i] \in LowerLetters \cup UpperLetters
          \/ i > 1 /\ s[i] \in Digits \cup {"+", "-", "."}

DigitValue(c) ==
    CASE c = "0" -> 0 [] c = "1" -> 1 [] c = "2" -> 2 [] c = "3" -> 3
      [] c = "4" -> 4 [] c = "5" -> 5 [] c = "6" -> 6 [] c = "7" -> 7
      [] c = "8" -> 8 [] c = "9" -> 9 [] OTHER -> 0

RECURSIVE DecimalValue(_)
DecimalValue(s) ==
    IF s = <<>> THEN 0
    ELSE 10 * DecimalValue(SubSeq(s, 1, Len(s) - 1)) + DigitValue(s[Len(s)])

\* largest port number (x == ushort(x))
MaxPort == 65535

\* the characters of a normalised ASCII host label, and the dot
HostChars == LowerLetters \cup UpperLetters \cup Digits \cup {"-", ".", "_"}

\* setAuthority: [userinfo "@"] host [":" port]; the port is all digits and
\* fits 16 bits, the host holds only host characters
QUrlAuthorityOk(auth) ==
    LET at       == IndexOf(auth, {"@"})
        hostport == SubSeq(auth, at + 1, Len(auth))
        colon    == LastIndexOf(hostport, {":"})
        port     == IF colon = 0 THEN <<>> ELSE SubSeq(hostport, colon + 1, Len(hostport))
        host     == IF colon = 0 THEN hostport ELSE SubSeq(hostport, 1, colon - 1)
    IN  /\ \A i \in 1..Len(port) : port[i] \in Digits
        /\ DecimalValue(port) <= MaxPort
        /\ \A i \in 1..Len(host) : host[i] \in HostChars

\* a relative reference whose path has a ':' before any '/'
QUrlColonBeforeSlash(path) ==
    LET c == IndexOf(path, {":"})
        s == IndexOf(path, {"/"})
    IN  c # 0 /\ (s = 0 \/ c < s)

\* QUrl(url): [scheme, valid], scheme() lower-cased and empty when the text
\* before the first ':' is no scheme, valid as isValid()
QUrl(url) ==
    LET \* the scheme colon is looked for before the first '?' or '#'
        q         == IndexOf(url, {"?", "#"})
        hierEnd   == IF q = 0 THEN Len(url) ELSE q - 1
        colon     == IndexOf(SubSeq(url, 1, hierEnd), {":"})
        hasScheme == colon # 0 /\ QUrlSchemeOk(SubSeq(url, 1, colon - 1))
        \* the hierarchical part: after the scheme's colon, up to '?' or '#'
        hier      == SubSeq(url, IF hasScheme THEN colon + 1 ELSE 1, hierEnd)
        hasAuth   == Len(hier) >= 2 /\ hier[1] = "/" /\ hier[2] = "/"
        \* the authority: after "//", up to the next '/'
        rest      == SubSeq(hier, 3, Len(hier))
        slash     == IndexOf(rest, {"/"})
        authority == IF slash = 0 THEN rest ELSE SubSeq(rest, 1, slash - 1)
        path      == IF hasAuth THEN SubSeq(rest, Len(authority) + 1, Len(rest)) ELSE hier
    IN  [scheme |-> IF hasScheme THEN ToLower(SubSeq(url, 1, colon - 1)) ELSE <<>>,
         valid  |-> /\ url # <<>>
                    /\ hasAuth => QUrlAuthorityOk(authority)
                    /\ (~hasAuth /\ ~hasScheme) => ~QUrlColonBeforeSlash(path)]

(***************************************************************************)
(* BrowserDetector: validation and sanitization (static functions)         *)
(***************************************************************************)
Str_http       == <<"h","t","t","p">>
Str_https      == <<"h","t","t","p","s">>
Str_file       == <<"f","i","l","e">>
Str_about      == <<"a","b","o","u","t">>
Str_chrome     == <<"c","h","r","o","m","e">>
Str_edge       == <<"e","d","g","e">>
Str_javascript == <<"j","a","v","a","s","c","r","i","p","t">>
Str_data       == <<"d","a","t","a">>

allowedSchemes == {Str_http, Str_https, Str_file, Str_about, Str_chrome, Str_edge}

\* dangerousChars.match(url).hasMatch()
dangerousCharsMatch(url) == \E i \in 1..Len(url) : url[i] \in DangerousChars

\* isValidUrl with the scheme-less branch accepting without the character test
isValidUrl_NoCharTestWithoutScheme(url) ==
    LET qurl == QUrl(url)
    IN  IF url = <<>> THEN FALSE
        ELSE IF qurl.valid /\ (qurl.scheme = <<>> \/ qurl.scheme \in allowedSchemes)
             THEN ~dangerousCharsMatch(url)
        ELSE ~Contains(url, <<":", "/", "/">>)

\* isValidUrl that accepts only what QUrl parses with an allowed scheme or none
isValidUrl_OnlyParsedUrls(url) ==
    LET qurl == QUrl(url)
    IN  IF url = <<>> THEN FALSE
        ELSE IF qurl.valid /\ (qurl.scheme = <<>> \/ qurl.scheme \in allowedSchemes)
             THEN ~dangerousCharsMatch(url)
        ELSE FALSE

isValidUrl(url) ==
    LET qurl == QUrl(url)
    IN  IF url = <<>> THEN FALSE
        ELSE IF qurl.valid /\ (qurl.scheme = <<>> \/ qurl.scheme \in allowedSchemes)
             THEN ~dangerousCharsMatch(url)
        ELSE IF ~Contains(url, <<":", "/", "/">>)
             THEN ~dangerousCharsMatch(url)
        ELSE FALSE

\* validProfile.match(profileName).hasMatch() for ^[a-zA-Z0-9 ._\-]+$ :
\* in a QRegularExpression "$" also matches just before a final newline
validProfileMatch(s) ==
    LET body == IF s # <<>> /\ s[Len(s)] = "LF" THEN SubSeq(s, 1, Len(s) - 1) ELSE s
    IN  body # <<>> /\ \A i \in 1..Len(body) : IsProfileChar(body[i])

\* isValidProfileName without the isEmpty test and with * for + in the pattern
isValidProfileName_AcceptsEmpty(profileName) ==
    \A i \in 1..Len(profileName) : IsProfileChar(profileName[i])

isValidProfileName(profileName) ==
    IF profileName = <<>> THEN FALSE ELSE validProfileMatch(profileName)

sanitizeUrl(url) == Trimmed(RemoveChar(url, "NUL"))

\* sanitizeProfileName without the trimming
sanitizeProfileName_NoTrim(profileName) ==
    SelectSeq(RemoveChar(profileName, "NUL"), IsProfileChar)

sanitizeProfileName(profileName) ==
    SelectSeq(Trimmed(RemoveChar(profileName, "NUL")), IsProfileChar)

(***************************************************************************)
(* constants.h                                                             *)
(***************************************************************************)
Browsers == {"firefox", "chrome", "chromium"}

FIREFOX_EXECUTABLE  == "firefox"
CHROME_EXECUTABLE   == "google-chrome"
CHROMIUM_EXECUTABLE == "chromium"

CHROME_EXECUTABLE_VARIANTS ==
    <<"google-chrome", "google-chrome-stable", "google-chrome-beta", "google-chrome-unstable">>

\* seconds a detection result stays cached
CacheWindow == 5

(***************************************************************************)
(* The environment: the process's $PATH and home directory                 *)
(***************************************************************************)
SearchPath == <<"/usr/bin">>
HomePath   == "/home/user"

\* QMap::value(key): the default-constructed value when the key is absent
MapValue(map, key, default) == IF key \in DOMAIN map THEN map[key] ELSE default

EmptyMap == [k \in {} |-> k]

\* the first element of seq that is in set, "" when there is none
RECURSIVE FirstIn(_, _)
FirstIn(seq, set) ==
    IF seq = <<>> THEN ""
    ELSE IF Head(seq) \in set THEN Head(seq)
    ELSE FirstIn(Tail(seq), set)

(***************************************************************************)
(* BrowserDetector: discovery.  f is the filesystem:                       *)
(*   f.exec        paths that exist and are executable                     *)
(*   f.firefoxIni  ~/.mozilla/firefox/profiles.ini: whether it exists and  *)
(*                 its sections, each [group, Name, Path, Default]         *)
(*   f.localState  the Local State file of each config directory           *)
(*                 (google-chrome, chromium): its state, "absent",         *)
(*                 "invalid" (unreadable or no JSON object) or "valid",    *)
(*                 and the entries of profile.info_cache, each [dir, name] *)
(*   f.dirs        existing profile directories <<config directory, dir>>  *)
(*   f.timesJson   Firefox profile paths holding a times.json whose        *)
(*                 firstUse is positive                                    *)
(*   f.prefs       <<config directory, dir>> holding a Preferences file    *)
(***************************************************************************)
findExecutable(f, name) ==
    LET path == FirstIn([i \in 1..Len(SearchPath) |-> SearchPath[i] \o "/" \o name], f.exec)
        commonPaths == << "/usr/bin/" \o name,
                          "/usr/local/bin/" \o name,
                          "/opt/" \o name \o "/" \o name,
                          HomePath \o "/.local/bin/" \o name >>
    IN  IF path # "" THEN path ELSE FirstIn(commonPaths, f.exec)

RECURSIVE findExecutableFromList(_, _)
findExecutableFromList(f, names) ==
    IF names = <<>> THEN ""
    ELSE IF findExecutable(f, Head(names)) # "" THEN findExecutable(f, Head(names))
    ELSE findExecutableFromList(f, Tail(names))

\* the last-used time of a profile, as the file it is read from
getProfileLastUsed(f, browserPath, configDir, dir) ==
    IF browserPath = "firefox" /\ dir \in f.timesJson
    THEN <<"firstUse", dir>>
    ELSE IF browserPath \in {"chrome", "chromium"} /\ <<configDir, dir>> \in f.prefs
    THEN <<"mtime", configDir, dir, "Preferences">>
    ELSE <<"mtime", configDir, dir>>

\* ProfileInfo(n, p): displayName is the name, isDefault false
ProfileInfo(n, p) ==
    [name |-> n, path |-> p, displayName |-> n, isDefault |-> FALSE, lastUsed |-> <<>>]

\* QString::startsWith("Profile") on a section name
ProfileGroups == {"Profile0", "Profile1", "Profile2"}

RECURSIVE parseFirefoxIni(_, _)
parseFirefoxIni(groups, profiles) ==
    IF groups = <<>> THEN profiles
    ELSE LET g == Head(groups)
             info == [ProfileInfo(g.Name, g.Path) EXCEPT !.isDefault = g.Default]
         IN  IF g.group \in ProfileGroups /\ g.Name # <<>> /\ g.Path # ""
             THEN parseFirefoxIni(Tail(groups),
                     [k \in DOMAIN profiles \cup {g.Name} |->
                         IF k = g.Name THEN info ELSE profiles[k]])
             ELSE parseFirefoxIni(Tail(groups), profiles)

getFirefoxProfiles(f) ==
    IF ~f.firefoxIni.exists THEN EmptyMap
    ELSE LET profiles == parseFirefoxIni(f.firefoxIni.groups, EmptyMap)
         IN  [k \in DOMAIN profiles |->
                 [profiles[k] EXCEPT !.lastUsed =
                     getProfileLastUsed(f, "firefox", ".mozilla/firefox", profiles[k].path)]]

Str_Default == <<"D","e","f","a","u","l","t">>

RECURSIVE parseInfoCache(_, _, _, _)
parseInfoCache(f, configDir, infoCache, profiles) ==
    IF infoCache = <<>> THEN profiles
    ELSE LET e    == Head(infoCache)
             name == IF e.name = <<>> THEN e.dir ELSE e.name
         IN  IF <<configDir, e.dir>> \in f.dirs
             THEN parseInfoCache(f, configDir, Tail(infoCache),
                     [k \in DOMAIN profiles \cup {e.dir} |->
                         IF k = e.dir THEN ProfileInfo(name, e.dir) ELSE profiles[k]])
             ELSE parseInfoCache(f, configDir, Tail(infoCache), profiles)

parseChromiumLocalState(f, configDir) ==
    IF f.localState[configDir].state = "invalid" THEN EmptyMap
    ELSE parseInfoCache(f, configDir, f.localState[configDir].infoCache,
                        [k \in {Str_Default} |-> ProfileInfo(Str_Default, Str_Default)])

getChromeProfiles(f, browserName) ==
    IF f.localState[browserName].state = "absent" THEN EmptyMap
    ELSE LET profiles == parseChromiumLocalState(f, browserName)
         IN  [k \in DOMAIN profiles |->
                 [profiles[k] EXCEPT !.lastUsed =
                     getProfileLastUsed(f, browserName, browserName, profiles[k].path)]]

\* whether an enabled-override switches the browser off
DisabledByOverride(enabledOverrides, b) ==
    b \in DOMAIN enabledOverrides /\ ~enabledOverrides[b]

\* the executable detectBrowsers settles on for browser b, "" when none
DetectedExecutable(f, execOverrides, enabledOverrides, b) ==
    IF DisabledByOverride(enabledOverrides, b) THEN ""
    ELSE IF MapValue(execOverrides, b, "") # "" THEN MapValue(execOverrides, b, "")
    ELSE CASE b = "firefox"  -> findExecutable(f, FIREFOX_EXECUTABLE)
           [] b = "chrome"   -> findExecutableFromList(f, CHROME_EXECUTABLE_VARIANTS)
           [] b = "chromium" -> findExecutable(f, CHROMIUM_EXECUTABLE)

\* BrowserInfo(name, executable, type) with its icon and profiles
DetectedBrowser(f, b, exec) ==
    CASE b = "firefox" ->
           [name |-> "Firefox", executable |-> exec, type |-> "Firefox",
            iconPath |-> "/usr/share/icons/hicolor/48x48/apps/firefox.png",
            profiles |-> getFirefoxProfiles(f)]
      [] b = "chrome" ->
           [name |-> "Google Chrome", executable |-> exec, type |-> "Chrome",
            iconPath |-> "/usr/share/icons/hicolor/48x48/apps/google-chrome.png",
            profiles |-> getChromeProfiles(f, "google-chrome")]
      [] b = "chromium" ->
           [name |-> "Chromium", executable |-> exec, type |-> "Chromium",
            iconPath |-> "/usr/share/icons/hicolor/48x48/apps/chromium.png",
            profiles |-> getChromeProfiles(f, "chromium")]

\* the scan of detectBrowsers: the map it builds when the cache is not used
ScanBrowsers(f, execOverrides, enabledOverrides) ==
    [b \in {x \in Browsers : DetectedExecutable(f, execOverrides, enabledOverrides, x) # ""} |->
        DetectedBrowser(f, b, DetectedExecutable(f, execOverrides, enabledOverrides, b))]

\* the cache test of detectBrowsers; lastDetection is -1 while invalid
CacheIsFresh(cached, lastDetection, time) ==
    /\ cached # EmptyMap
    /\ lastDetection # -1
    /\ time - lastDetection < CacheWindow

(***************************************************************************)
(* BrowserDetector::launchBrowser.  osAccepts: whether the operating       *)
(* system accepts the spawn request of startDetached.  The result is what  *)
(* the call returns, the launchError signals it emits and the process it   *)
(* starts (program and argument vector).                                   *)
(***************************************************************************)
Str_dashP == <<"-", "P">>

Str_profileDirectory ==
    <<"-","-","p","r","o","f","i","l","e","-","d","i","r","e","c","t","o","r","y","=">>

LaunchFailure(message, arguments) ==
    [result |-> FALSE,
     errors |-> <<[message |-> message, args |-> arguments]>>,
     spawn  |-> <<>>]

\* startDetached that resolves the browser id on $PATH instead of running
\* the recorded executable
startDetached_ByBrowserId(browser, program, arguments, osAccepts) ==
    IF osAccepts
    THEN [result |-> TRUE, errors |-> <<>>,
          spawn |-> <<[program |-> browser, arguments |-> arguments]>>]
    ELSE LaunchFailure("Failed to launch %1: %2", <<browser, "FailedToStart">>)

\* startDetached with no handler on errorOccurred
startDetached_Silent(browser, program, arguments, osAccepts) ==
    IF osAccepts
    THEN [result |-> TRUE, errors |-> <<>>,
          spawn |-> <<[program |-> program, arguments |-> arguments]>>]
    ELSE [result |-> FALSE, errors |-> <<>>, spawn |-> <<>>]

\* startDetached on the prepared QProcess: a refused request raises
\* errorOccurred, whose handler emits launchError
startDetached(browser, program, arguments, osAccepts) ==
    IF osAccepts
    THEN [result |-> TRUE, errors |-> <<>>,
          spawn |-> <<[program |-> program, arguments |-> arguments]>>]
    ELSE LaunchFailure("Failed to launch %1: %2", <<browser, "FailedToStart">>)

\* launchBrowser without the test that the browser has the profile
launchBrowser_SkipsProfileLookup(cached, browser, profile, url, osAccepts) ==
    LET sanitizedUrl     == sanitizeUrl(url)
        sanitizedProfile == sanitizeProfileName(profile)
    IN  IF ~isValidUrl(sanitizedUrl)
        THEN LaunchFailure("Invalid URL: %1", <<url>>)
        ELSE IF ~isValidProfileName(sanitizedProfile)
        THEN LaunchFailure("Invalid profile name: %1", <<profile>>)
        ELSE IF browser \notin DOMAIN cached
        THEN LaunchFailure("Browser %1 not found", <<browser>>)
        ELSE CASE cached[browser].type = "Firefox" ->
                    [result |-> osAccepts, errors |-> <<>>,
                     spawn |-> <<[program |-> cached[browser].executable,
                                  arguments |-> <<Str_dashP, sanitizedProfile, sanitizedUrl>>]>>]
               [] OTHER ->
                    [result |-> osAccepts, errors |-> <<>>,
                     spawn |-> <<[program |-> cached[browser].executable,
                                  arguments |-> <<Str_profileDirectory \o sanitizedProfile,
                                                  sanitizedUrl>>]>>]

launchBrowser(cached, browser, profile, url, osAccepts) ==
    LET sanitizedUrl     == sanitizeUrl(url)
        sanitizedProfile == sanitizeProfileName(profile)
    IN  IF ~isValidUrl(sanitizedUrl)
        THEN LaunchFailure("Invalid URL: %1", <<url>>)
        ELSE IF ~isValidProfileName(sanitizedProfile)
        THEN LaunchFailure("Invalid profile name: %1", <<profile>>)
        ELSE IF browser \notin DOMAIN cached
        THEN LaunchFailure("Browser %1 not found", <<browser>>)
        ELSE IF sanitizedProfile \notin DOMAIN cached[browser].profiles
        THEN LaunchFailure("Profile %1 not found for browser %2", <<sanitizedProfile, browser>>)
        ELSE CASE cached[browser].type = "Firefox" ->
                    startDetached(browser, cached[browser].executable,
                                  <<Str_dashP, sanitizedProfile, sanitizedUrl>>, osAccepts)
               [] cached[browser].type \in {"Chrome", "Chromium"} ->
                    startDetached(browser, cached[browser].executable,
                                  <<Str_profileDirectory \o sanitizedProfile, sanitizedUrl>>,
                                  osAccepts)
               [] OTHER -> LaunchFailure("Unknown browser type", <<>>)

(***************************************************************************)
(* State                                                                   *)
(***************************************************************************)
VARIABLES
    fs,                  \* the filesystem
    now,                 \* QDateTime::currentDateTime(), in seconds
    m_cachedBrowsers,    \* BrowserDetector: the cached detection result
    m_lastDetection,     \* BrowserDetector: when it was taken, -1 while invalid
    m_execOverrides,     \* BrowserDetector: browser id -> executable path
    m_enabledOverrides,  \* BrowserDetector: browser id -> enabled
    cfgRemember,         \* ConfigManager: General/RememberLastUsed
    cfgLastUsed,         \* ConfigManager: LastUsed/Browser and LastUsed/Profile
    cfgProfiles,         \* ConfigManager: Browsers/<browser>/<profile> entries
    m_profiles,          \* ProfileManager: the list of ProfileEntry
    call,                \* the operation of the last step and what it did
    cfgTimeout,          \* ConfigManager: General/DefaultTimeout
    window,              \* MainWindow: "none" before it is constructed, then
                         \* "open", "accepted" or "rejected"
    m_url,               \* MainWindow: the URL to open
    m_profileItems,      \* MainWindow: the ProfileItem widgets
    m_selectedItem,      \* MainWindow: index of the selected item, 0 for nullptr
    m_timeoutTimer,      \* MainWindow: whether the auto-select timer is active
    m_tickTimer,         \* MainWindow: whether the countdown timer is active
    m_remainingSeconds,  \* MainWindow: seconds shown by the countdown
    searchText,          \* MainWindow: the text of searchLineEdit
    searchHasFocus,      \* MainWindow: whether searchLineEdit has the focus
    openEnabled,         \* MainWindow: whether openButton is enabled
    rcFile,              \* kde-browser-pickerrc: whether its group General
                         \* exists, and General/ConfigVersion
    yamlFiles,           \* the override files: whether the environment
                         \* variable is set and the file it names, and
                         \* kde-browser-picker.yaml and .yml in ~/.config
    m_browserExecOverrides,     \* ConfigManager: browser id -> executable path
    m_browserEnabledOverrides,  \* ConfigManager: browser id -> enabled
    txtIn,      \* the QString handed to a static function of BrowserDetector
    txtOp,      \* the static function last called on txtIn
    txtBool,    \* its result, when it returns bool
    txtStr      \* its result, when it returns QString

detectorVars == <<m_cachedBrowsers, m_lastDetection, m_execOverrides, m_enabledOverrides>>
configVars   == <<cfgRemember, cfgLastUsed, cfgProfiles>>
envVars      == <<fs, now>>
widgetVars   == <<m_profileItems, m_selectedItem, m_timeoutTimer, m_tickTimer,
                  m_remainingSeconds, searchText, searchHasFocus, openEnabled>>
dialogVars   == <<cfgTimeout, window, m_url, widgetVars>>
fileVars     == <<rcFile, yamlFiles, m_browserExecOverrides, m_browserEnabledOverrides>>
appVars      == <<envVars, detectorVars, configVars, m_profiles, call, dialogVars, fileVars>>
textVars     == <<txtIn, txtOp, txtBool, txtStr>>
vars         == <<appVars, textVars, dialogVars>>

\* no static function has been called
TextIdle ==
    /\ txtIn = <<>>
    /\ txtOp = "none"
    /\ txtBool = FALSE
    /\ txtStr = <<>>

(***************************************************************************)
(* Filesystems the program is run on                                       *)
(***************************************************************************)
Str_Work     == <<"W","o","r","k">>
Str_RnD      == <<"R","&","D">>
Str_Home     == <<"H","o","m","e">>
Str_Profile1 == <<"P","r","o","f","i","l","e"," ","1">>

NoLocalState == [state |-> "absent", infoCache |-> <<>>]

\* nothing installed
FsBare ==
    [exec       |-> {},
     firefoxIni |-> [exists |-> FALSE, groups |-> <<>>],
     localState |-> [d \in {"google-chrome", "chromium"} |-> NoLocalState],
     dirs       |-> {},
     timesJson  |-> {},
     prefs      |-> {}]

\* Firefox with the profiles Work (its default) and R&D
FsFirefox ==
    [FsBare EXCEPT
        !.exec = {"/usr/bin/firefox", "/opt/firefox/firefox-bin"},
        !.firefoxIni =
            [exists |-> TRUE,
             groups |-> << [group |-> "General",  Name |-> <<>>,     Path |-> "",         Default |-> FALSE],
                           [group |-> "Profile0", Name |-> Str_Work, Path |-> "w.default", Default |-> TRUE],
                           [group |-> "Profile1", Name |-> Str_RnD,  Path |-> "r.dev",     Default |-> FALSE] >>],
        !.timesJson = {"w.default"}]

\* Firefox, Chrome (as google-chrome-stable) and Chromium
FsAll ==
    [FsFirefox EXCEPT
        !.exec = {"/usr/bin/firefox", "/opt/firefox/firefox-bin",
                  "/usr/bin/google-chrome-stable", "/usr/local/bin/chromium"},
        !.localState =
            [d \in {"google-chrome", "chromium"} |->
                IF d = "google-chrome"
                THEN [state |-> "valid",
                      infoCache |-> << [dir |-> Str_Profile1, name |-> Str_Home],
                                       [dir |-> Str_Work,     name |-> <<>>] >>]
                ELSE [state |-> "valid", infoCache |-> <<>>]],
        !.dirs  = {<<"google-chrome", Str_Default>>, <<"google-chrome", Str_Profile1>>,
                   <<"chromium", Str_Default>>},
        !.prefs = {<<"google-chrome", Str_Default>>, <<"chromium", Str_Default>>}]

Filesystems == {FsBare, FsFirefox, FsAll}

(***************************************************************************)
(* The program after construction                                          *)
(***************************************************************************)
NoLastUsed == [browser |-> "", profile |-> <<>>]

\* no Browsers/<browser>/<profile> group has an entry; each of enabled,
\* displayName and order maps <<browser, profile>> to the entry written
NoProfileSettings == [enabled |-> EmptyMap, displayName |-> EmptyMap, order |-> EmptyMap]

\* ProfileEntry(): the default-constructed entry, which getProfile and
\* getDefaultProfile return when they have none
ProfileEntry ==
    [browser |-> "", browserDisplayName |-> "", profileId |-> <<>>,
     profileDisplayName |-> <<>>, iconPath |-> "", lastUsed |-> <<>>,
     isEnabled |-> TRUE, isDefault |-> FALSE, order |-> 999]

\* what a step leaves in call: the operation, its arguments, the value it
\* returned (result, entry), the signals it raised (launchFailed for
\* profileLaunchFailed, launched for profileLaunched), the process it
\* started, and the last-used pair before it
\* key: the key of a key press; item: the index of the profile item a click
\* or key press is about, 0 when it is about none
\* before: the cache, its timestamp, the registry list and the profile
\* settings when the operation was called, for the operations that replace
\* them; seen: what allProfiles() returned to each slot run during it
\* a file that does not exist; a file that exists holds lines
NoFile == [exists |-> FALSE, lines |-> <<>>]

NoCall ==
    [op |-> "none", browser |-> "", profile |-> <<>>, url |-> <<>>, result |-> FALSE,
     launchFailed |-> <<>>, launched |-> <<>>, spawn |-> <<>>,
     lastUsedBefore |-> NoLastUsed, entry |-> ProfileEntry,
     before |-> [cached |-> EmptyMap, lastDetection |-> -1, profiles |-> <<>>,
                 cfgProfiles |-> NoProfileSettings],
     seen |-> <<>>, key |-> "", item |-> 0, userSelected |-> FALSE,
     profiles |-> EmptyMap, seconds |-> 0,
     userLaunched |-> FALSE, force |-> FALSE, complete |-> FALSE, again |-> FALSE,
     filesBefore |-> [rcFile |-> [exists |-> FALSE, version |-> 1], cfgTimeout |-> 0,
                      cfgRemember |-> FALSE, yaml |-> NoFile, yml |-> NoFile]]

\* profiles: the QMap that a profile enumeration returned; seconds: the
\* argument of setDefaultTimeout
\* userSelected: whether the user has selected a profile item, by a click,
\* a double click, an arrow key or a number key, since the dialog opened
CallOf(op) ==
    [NoCall EXCEPT !.op = op, !.userSelected = call.userSelected,
                   !.userLaunched = call.userLaunched]

\* the state an operation is called in
Before ==
    [cached |-> m_cachedBrowsers, lastDetection |-> m_lastDetection,
     profiles |-> m_profiles, cfgProfiles |-> cfgProfiles]

DetectorInit ==
    /\ m_cachedBrowsers = EmptyMap
    /\ m_lastDetection = -1
    /\ m_execOverrides = EmptyMap
    /\ m_enabledOverrides = EmptyMap

\* the configuration file of an earlier run, no override file, and a
\* ConfigManager that has loaded no override
FilesIdle ==
    /\ rcFile = [exists |-> TRUE, version |-> 2]
    /\ yamlFiles = [envSet |-> FALSE, envFile |-> NoFile, yaml |-> NoFile, yml |-> NoFile]
    /\ m_browserExecOverrides = EmptyMap
    /\ m_browserEnabledOverrides = EmptyMap

\* constants.h: the timeout of a new configuration and the bounds that
\* setDefaultTimeout keeps
DEFAULT_TIMEOUT == 10
MIN_TIMEOUT     == 5
MAX_TIMEOUT     == 60

\* no MainWindow has been constructed
WindowIdle ==
    /\ window = "none"
    /\ m_url = <<>>
    /\ m_profileItems = <<>>
    /\ m_selectedItem = 0
    /\ m_timeoutTimer = FALSE
    /\ m_tickTimer = FALSE
    /\ m_remainingSeconds = 0
    /\ searchText = <<>>
    /\ searchHasFocus = FALSE
    /\ openEnabled = FALSE

AppIdle ==
    /\ fs = FsBare
    /\ now = 0
    /\ DetectorInit
    /\ FilesIdle
    /\ cfgRemember = TRUE
    /\ cfgLastUsed = NoLastUsed
    /\ cfgProfiles = NoProfileSettings
    /\ m_profiles = <<>>
    /\ call = NoCall
    /\ cfgTimeout = DEFAULT_TIMEOUT
    /\ WindowIdle

(***************************************************************************)
(* The environment                                                         *)
(***************************************************************************)
\* latest time modelled
MaxTime == 5

\* seconds pass
Tick(d) ==
    /\ now + d <= MaxTime
    /\ now' = now + d
    /\ call' = CallOf("none")
    /\ UNCHANGED <<fs, detectorVars, configVars, m_profiles, textVars, fileVars, dialogVars>>

\* browsers and profiles are installed or removed
FsChange(f) ==
    /\ f # fs
    /\ fs' = f
    /\ call' = CallOf("none")
    /\ UNCHANGED <<now, detectorVars, configVars, m_profiles, textVars, fileVars, dialogVars>>

(***************************************************************************)
(* BrowserDetector, called through ProfileManager::browserDetector()       *)
(***************************************************************************)
\* what detectBrowsers returns and leaves in the cache
detectBrowsers(f, cached, lastDetection, execOverrides, enabledOverrides, time) ==
    IF CacheIsFresh(cached, lastDetection, time)
    THEN [browsers |-> cached, lastDetection |-> lastDetection]
    ELSE [browsers |-> ScanBrowsers(f, execOverrides, enabledOverrides),
          lastDetection |-> time]

DetectBrowsers ==
    LET d == detectBrowsers(fs, m_cachedBrowsers, m_lastDetection,
                            m_execOverrides, m_enabledOverrides, now)
    IN  /\ m_cachedBrowsers' = d.browsers
        /\ m_lastDetection' = d.lastDetection
        /\ call' = [CallOf("detectBrowsers") EXCEPT !.before = Before]
        /\ UNCHANGED <<envVars, m_execOverrides, m_enabledOverrides, configVars,
                       m_profiles, textVars, fileVars, dialogVars>>

setExecutableOverrides(overrides) ==
    /\ m_execOverrides' = overrides
    /\ call' = CallOf("setExecutableOverrides")
    /\ UNCHANGED <<envVars, m_cachedBrowsers, m_lastDetection, m_enabledOverrides,
                   configVars, m_profiles, textVars, fileVars, dialogVars>>

setEnabledOverrides(overrides) ==
    /\ m_enabledOverrides' = overrides
    /\ call' = CallOf("setEnabledOverrides")
    /\ UNCHANGED <<envVars, m_cachedBrowsers, m_lastDetection, m_execOverrides,
                   configVars, m_profiles, textVars, fileVars, dialogVars>>

\* the slot connected to launchError: one profileLaunchFailed per error
onLaunchError(errors) == errors

\* launchBrowser called on ProfileManager::browserDetector(); its launchError
\* reaches onLaunchError like any other
CallLaunchBrowser(browser, profile, url, osAccepts) ==
    \E success \in {launchBrowser(m_cachedBrowsers, browser, profile, url, osAccepts)} :
        /\ call' = [CallOf("launchBrowser") EXCEPT
                        !.browser = browser, !.profile = profile, !.url = url,
                        !.result = success.result,
                        !.launchFailed = onLaunchError(success.errors),
                        !.spawn = success.spawn,
                        !.lastUsedBefore = cfgLastUsed]
        /\ UNCHANGED <<envVars, detectorVars, configVars, m_profiles, textVars, fileVars, dialogVars>>

(***************************************************************************)
(* MainWindow: the widgets and timers of the dialog as one record, and the *)
(* slot of ConfigManager::configChanged                                    *)
(***************************************************************************)
Win ==
    [m_profileItems |-> m_profileItems, m_selectedItem |-> m_selectedItem,
     m_timeoutTimer |-> m_timeoutTimer, m_tickTimer |-> m_tickTimer,
     m_remainingSeconds |-> m_remainingSeconds, searchText |-> searchText,
     searchHasFocus |-> searchHasFocus, openEnabled |-> openEnabled]

SetWindow(w) ==
    /\ m_profileItems' = w.m_profileItems
    /\ m_selectedItem' = w.m_selectedItem
    /\ m_timeoutTimer' = w.m_timeoutTimer
    /\ m_tickTimer' = w.m_tickTimer
    /\ m_remainingSeconds' = w.m_remainingSeconds
    /\ searchText' = w.searchText
    /\ searchHasFocus' = w.searchHasFocus
    /\ openEnabled' = w.openEnabled

onConfigChanged(w, newTimeout) ==
    IF newTimeout # w.m_remainingSeconds
    THEN [w EXCEPT !.m_remainingSeconds = newTimeout,
                   !.m_timeoutTimer = newTimeout > 0,
                   !.m_tickTimer = newTimeout > 0]
    ELSE w

\* emit configChanged(): the slot runs in the dialog that is open
configChanged(newTimeout) ==
    IF window = "open" THEN SetWindow(onConfigChanged(Win, newTimeout))
    ELSE UNCHANGED widgetVars

(***************************************************************************)
(* ConfigManager                                                           *)
(***************************************************************************)
setRememberLastUsed(remember) ==
    /\ cfgRemember' = remember
    /\ call' = CallOf("setRememberLastUsed")
    /\ configChanged(cfgTimeout)
    /\ UNCHANGED <<envVars, detectorVars, cfgLastUsed, cfgProfiles, m_profiles, textVars, fileVars,
                   cfgTimeout, window, m_url>>

\* setDefaultTimeout that bounds the value from below only
setDefaultTimeout_NoUpperBound(seconds) ==
    /\ \E bound \in {IF seconds < MIN_TIMEOUT THEN MIN_TIMEOUT ELSE seconds} :
          /\ cfgTimeout' = bound
          /\ configChanged(bound)
    /\ call' = [CallOf("setDefaultTimeout") EXCEPT !.seconds = seconds]
    /\ UNCHANGED <<envVars, detectorVars, configVars, m_profiles, textVars, fileVars, window, m_url>>

setDefaultTimeout(seconds) ==
    /\ \E bound \in {IF seconds < MIN_TIMEOUT THEN MIN_TIMEOUT
                      ELSE IF seconds > MAX_TIMEOUT THEN MAX_TIMEOUT ELSE seconds} :
          /\ cfgTimeout' = bound
          /\ configChanged(bound)
    /\ call' = [CallOf("setDefaultTimeout") EXCEPT !.seconds = seconds]
    /\ UNCHANGED <<envVars, detectorVars, configVars, m_profiles, textVars, fileVars, window, m_url>>

\* setLastUsed that writes whatever the toggle is
setLastUsed_IgnoresToggle(remember, lastUsed, browser, profile) ==
    [browser |-> browser, profile |-> profile]

\* the LastUsed group after setLastUsed(browser, profile)
setLastUsed(remember, lastUsed, browser, profile) ==
    IF ~remember THEN lastUsed
    ELSE [browser |-> browser, profile |-> profile]

(***************************************************************************)
(* ProfileManager::launchProfile                                           *)
(***************************************************************************)
\* what launchProfile does to everything but the dialog; base is the record
\* of the operation that makes the call
launchProfileAs(base, browser, profileId, url, osAccepts) ==
    \E success \in {launchBrowser(m_cachedBrowsers, browser, profileId, url, osAccepts)} :
        /\ cfgLastUsed' = IF success.result
                          THEN setLastUsed(cfgRemember, cfgLastUsed, browser, profileId)
                          ELSE cfgLastUsed
        /\ call' = [base EXCEPT
                        !.browser = browser, !.profile = profileId, !.url = url,
                        !.result = success.result,
                        \* launchError is connected to onLaunchError, which
                        \* emits profileLaunchFailed
                        !.launchFailed = onLaunchError(success.errors),
                        !.launched = IF success.result THEN << <<browser, profileId>> >>
                                                       ELSE <<>>,
                        !.spawn = success.spawn,
                        !.lastUsedBefore = cfgLastUsed]
        /\ UNCHANGED <<envVars, detectorVars, cfgRemember, cfgProfiles, m_profiles, textVars, fileVars,
                       cfgTimeout>>

launchProfile(browser, profileId, url, osAccepts) ==
    /\ launchProfileAs(CallOf("launchProfile"), browser, profileId, url, osAccepts)
    /\ UNCHANGED <<window, m_url, widgetVars>>

(***************************************************************************)
(* Spec: the detector and its launch executor under any sequence of        *)
(* detections, override settings, launch requests and changes of the       *)
(* filesystem.  SpecLaunch: launches through ProfileManager, with the      *)
(* last-used recording of ConfigManager.                                   *)
(***************************************************************************)
Url_https      == Str_https \o <<":", "/", "/", "a", ".", "b">>
Url_javascript == Str_javascript \o <<":", "a", "(", "1", ")">>

LaunchBrowsers == Browsers \cup {"opera"}

LaunchProfiles ==
    {Str_Work, Str_Default, <<"W", "o", ";", "r", "k">>, <<";">>, <<" ", "NUL">>}

LaunchUrls == {Url_https, <<"LF">> \o Url_https \o <<" ">>, Url_javascript}

ExecOverrideMaps ==
    {EmptyMap, [b \in {"firefox"} |-> "/opt/firefox/firefox-bin"]}

EnabledOverrideMaps ==
    {EmptyMap, [b \in {"firefox"} |-> FALSE]}

Init ==
    /\ fs \in Filesystems
    /\ now = 0
    /\ DetectorInit
    /\ FilesIdle
    /\ cfgRemember = TRUE
    /\ cfgLastUsed = NoLastUsed
    /\ cfgProfiles = NoProfileSettings
    /\ m_profiles = <<>>
    /\ call = NoCall
    /\ cfgTimeout = DEFAULT_TIMEOUT
    /\ WindowIdle
    /\ TextIdle

Next ==
    \/ \E f \in Filesystems : FsChange(f)
    \/ DetectBrowsers
    \/ \E o \in ExecOverrideMaps : setExecutableOverrides(o)
    \/ \E o \in EnabledOverrideMaps : setEnabledOverrides(o)
    \/ \E b \in LaunchBrowsers, p \in LaunchProfiles, u \in LaunchUrls, os \in BOOLEAN :
          CallLaunchBrowser(b, p, u, os)

Spec == Init /\ [][Next]_vars

LaunchNext ==
    \/ \E f \in Filesystems : FsChange(f)
    \/ DetectBrowsers
    \/ \E r \in BOOLEAN : setRememberLastUsed(r)
    \/ \E b \in LaunchBrowsers, p \in LaunchProfiles, u \in LaunchUrls, os \in BOOLEAN :
          launchProfile(b, p, u, os)

SpecLaunch == Init /\ [][LaunchNext]_vars

(***************************************************************************)
(* SpecDetect: discovery as time passes, overrides are set and the         *)
(* filesystem changes                                                      *)
(***************************************************************************)

DetectNext ==
    \/ \E d \in {1, CacheWindow} : Tick(d)
    \/ \E f \in Filesystems : FsChange(f)
    \/ DetectBrowsers
    \/ \E o \in ExecOverrideMaps : setExecutableOverrides(o)
    \/ \E o \in EnabledOverrideMaps : setEnabledOverrides(o)

SpecDetect == Init /\ [][DetectNext]_vars

(***************************************************************************)
(* SpecInstalled: isBrowserInstalled next to discovery, as overrides are   *)
(* set and the filesystem changes                                          *)
(***************************************************************************)
\* BrowserDetector::isBrowserInstalled on the filesystem f
isBrowserInstalled(f, execOverrides, enabledOverrides, browserName) ==
    LET existsAndExec(p) == p # "" /\ p \in f.exec
    IN  IF browserName \notin {"firefox", "chrome", "chromium"} THEN FALSE
        ELSE IF browserName \in DOMAIN enabledOverrides /\ ~enabledOverrides[browserName]
        THEN FALSE
        ELSE IF existsAndExec(MapValue(execOverrides, browserName, "")) THEN TRUE
        ELSE findExecutable(f, CASE browserName = "firefox"  -> FIREFOX_EXECUTABLE
                                 [] browserName = "chrome"   -> CHROME_EXECUTABLE
                                 [] browserName = "chromium" -> CHROMIUM_EXECUTABLE) # ""

CallIsBrowserInstalled(browserName) ==
    /\ call' = [CallOf("isBrowserInstalled") EXCEPT
                    !.browser = browserName,
                    !.result = isBrowserInstalled(fs, m_execOverrides, m_enabledOverrides,
                                                  browserName)]
    /\ UNCHANGED <<envVars, detectorVars, configVars, m_profiles, textVars, fileVars,
                   dialogVars>>

InstalledNext ==
    \/ \E f \in Filesystems : FsChange(f)
    \/ DetectBrowsers
    \/ \E o \in ExecOverrideMaps : setExecutableOverrides(o)
    \/ \E o \in EnabledOverrideMaps : setEnabledOverrides(o)
    \/ \E b \in LaunchBrowsers : CallIsBrowserInstalled(b)

SpecInstalled == Init /\ [][InstalledNext]_vars

(***************************************************************************)
(* SpecChromium: getChromeProfiles as detectBrowsers calls it, for Chrome  *)
(* on ~/.config/google-chrome and for Chromium on ~/.config/chromium, on   *)
(* filesystems that hold the same files under both config roots            *)
(***************************************************************************)
ChromiumRoots == {"google-chrome", "chromium"}

\* entries of profile.info_cache: at most MaxCache keys, each once
MaxCache == 2

InfoCacheEntries ==
    {[dir |-> Str_Default,  name |-> Str_Home],
     [dir |-> Str_Profile1, name |-> Str_Home],
     [dir |-> Str_Work,     name |-> <<>>]}

InfoCaches ==
    {c \in UNION {[1..n -> InfoCacheEntries] : n \in 0..MaxCache} :
        \A i, j \in 1..Len(c) : c[i].dir = c[j].dir => i = j}

LocalStates ==
    {NoLocalState, [state |-> "invalid", infoCache |-> <<>>]}
    \cup {[state |-> "valid", infoCache |-> c] : c \in InfoCaches}

ProfileDirs == {Str_Default, Str_Profile1, Str_Work}

\* a Preferences file is in a profile directory that exists
ChromiumFilesystems ==
    {[FsBare EXCEPT
         !.localState = [d \in ChromiumRoots |-> x[1]],
         !.dirs  = {<<d, dir>> : d \in ChromiumRoots, dir \in x[2]},
         !.prefs = {<<d, dir>> : d \in ChromiumRoots, dir \in x[3]}] :
     x \in {y \in LocalStates \X (SUBSET ProfileDirs) \X (SUBSET ProfileDirs) :
                y[3] \subseteq y[2]}}

CallGetChromeProfiles(browserName) ==
    /\ call' = [CallOf("getChromeProfiles") EXCEPT
                    !.browser = browserName,
                    !.profiles = getChromeProfiles(fs, browserName)]
    /\ UNCHANGED <<envVars, detectorVars, configVars, m_profiles, textVars, fileVars, dialogVars>>

ChromiumInit ==
    /\ fs \in ChromiumFilesystems
    /\ now = 0
    /\ DetectorInit
    /\ FilesIdle
    /\ cfgRemember = TRUE
    /\ cfgLastUsed = NoLastUsed
    /\ cfgProfiles = NoProfileSettings
    /\ m_profiles = <<>>
    /\ call = NoCall
    /\ cfgTimeout = DEFAULT_TIMEOUT
    /\ WindowIdle
    /\ TextIdle

ChromiumNext == \E b \in ChromiumRoots : CallGetChromeProfiles(b)

SpecChromium == ChromiumInit /\ [][ChromiumNext]_vars

(***************************************************************************)
(* Inputs of the static functions                                          *)
(***************************************************************************)
\* longest free part of a URL input, longest profile-name input
MaxTail == 2
MaxName == 3

SeqsUpTo(S, n) == UNION {[1..k -> S] : k \in 0..n}

UrlPrefixes ==
    {<<>>, Str_http, Str_https, Str_file, Str_about, Str_chrome, Str_edge,
     Str_javascript, Str_data, <<"H","t","t","p">>, <<"1","a">>}

UrlSeparators == {<<>>, <<":">>, <<":", "/", "/">>}

UrlTailChars == {"a", "1", ":", "/", ";", "<", " ", "NUL", "?", "@"}

UrlInputs ==
    {p \o sep \o t : p \in UrlPrefixes, sep \in UrlSeparators,
                     t \in SeqsUpTo(UrlTailChars, MaxTail)}

NameChars == {"a", "B", "1", " ", ".", "-", "_", ";", "/", "LF", "NUL"}

NameInputs == SeqsUpTo(NameChars, MaxName)

(***************************************************************************)
(* The static functions, called on any QString                             *)
(***************************************************************************)
TextInit ==
    /\ txtIn \in UrlInputs \cup NameInputs
    /\ txtOp = "none"
    /\ txtBool = FALSE
    /\ txtStr = <<>>
    /\ AppIdle

CallIsValidUrl ==
    /\ txtOp' = "isValidUrl"
    /\ txtBool' = isValidUrl(txtIn)
    /\ txtStr' = <<>>
    /\ UNCHANGED <<txtIn, appVars>>

CallIsValidProfileName ==
    /\ txtOp' = "isValidProfileName"
    /\ txtBool' = isValidProfileName(txtIn)
    /\ txtStr' = <<>>
    /\ UNCHANGED <<txtIn, appVars>>

CallSanitizeUrl ==
    /\ txtOp' = "sanitizeUrl"
    /\ txtStr' = sanitizeUrl(txtIn)
    /\ txtBool' = FALSE
    /\ UNCHANGED <<txtIn, appVars>>

CallSanitizeProfileName ==
    /\ txtOp' = "sanitizeProfileName"
    /\ txtStr' = sanitizeProfileName(txtIn)
    /\ txtBool' = FALSE
    /\ UNCHANGED <<txtIn, appVars>>

TextNext ==
    \/ CallIsValidUrl
    \/ CallIsValidProfileName
    \/ CallSanitizeUrl
    \/ CallSanitizeProfileName

SpecText == TextInit /\ [][TextNext]_vars

(***************************************************************************)
(* SpecUrlArg: the first positional argument of the command line           *)
(***************************************************************************)
Str_www == <<"w", "w", "w", ".">>

\* main: the URL that the first positional argument becomes
urlArgument(url) ==
    IF ~Contains(url, <<":", "/", "/">>)
    THEN IF Len(url) >= 4 /\ SubSeq(url, 1, 4) = Str_www
         THEN Str_https \o <<":", "/", "/">> \o url
         ELSE Str_https \o <<":", "/", "/">> \o Str_www \o url
    ELSE url

ArgPrefixes == {<<>>, Str_www, Str_http \o <<":", "/", "/">>, <<"a">>, Str_about \o <<":">>}

ArgTailChars == {"a", "1", ".", "/", ":"}

ArgInputs == {p \o t : p \in ArgPrefixes, t \in SeqsUpTo(ArgTailChars, MaxTail)}

UrlArgInit ==
    /\ txtIn \in ArgInputs
    /\ txtOp = "none"
    /\ txtBool = FALSE
    /\ txtStr = <<>>
    /\ AppIdle

CallUrlArgument ==
    /\ txtOp' = "urlArgument"
    /\ txtStr' = urlArgument(txtIn)
    /\ txtBool' = FALSE
    /\ UNCHANGED <<txtIn, appVars>>

SpecUrlArg == UrlArgInit /\ [][CallUrlArgument]_vars

(***************************************************************************)
(* Claims about the static functions (SpecText)                            *)
(***************************************************************************)
ForbiddenUrlChars == {";", "|", "BACKTICK", "$", "(", ")", "{", "}", "[", "]", "<", ">"}

HasForbiddenUrlChar(s) == \E i \in 1..Len(s) : s[i] \in ForbiddenUrlChars

\* the text before the first ':' when it is an RFC 3986 scheme, else <<>>
SchemeOf(s) ==
    LET c == IndexOf(s, {":"})
        pre == SubSeq(s, 1, c - 1)
    IN  IF /\ c > 1
           /\ pre[1] \in LowerLetters \cup UpperLetters
           /\ \A i \in 2..Len(pre) :
                 pre[i] \in LowerLetters \cup UpperLetters \cup Digits \cup {"+", "-", "."}
        THEN ToLower(pre)
        ELSE <<>>

\* C2: isValidUrl rejects every URL whose scheme is not http, https, file,
\* about, chrome or edge, with or without "://" and with or without a
\* forbidden character; javascript: and data: URLs are always rejected.
C2_OtherSchemesRejected ==
    (/\ txtOp = "isValidUrl"
     /\ SchemeOf(txtIn) # <<>>
     /\ SchemeOf(txtIn) \notin allowedSchemes)
    => txtBool = FALSE

\* C3: isValidUrl is false for the empty string and for every string that
\* holds one of ; | ` $ ( ) { } [ ] < >, whatever its scheme, and also
\* when it has no scheme.
C3_EmptyOrForbiddenCharRejected ==
    (txtOp = "isValidUrl" /\ (txtIn = <<>> \/ HasForbiddenUrlChar(txtIn)))
    => txtBool = FALSE

C3_Witness ==
    /\ txtOp = "isValidUrl"
    /\ txtIn = <<"a", ";">>
    /\ txtBool = FALSE

\* C4: isValidProfileName(s) is true exactly when s is not empty and every
\* character of s is an ASCII letter, a digit, a space, '.', '-' or '_'.
C4_ProfileNameExactlyTheClass ==
    txtOp = "isValidProfileName"
    => (txtBool <=> (/\ txtIn # <<>>
                     /\ \A i \in 1..Len(txtIn) :
                           txtIn[i] \in LowerLetters \cup UpperLetters \cup Digits
                                        \cup {" ", ".", "-", "_"}))

\* C7: sanitization is idempotent for both inputs: sanitizing the result of
\* sanitizeUrl, or of sanitizeProfileName, again yields the same string.
C7_SanitizeIdempotent ==
    /\ txtOp = "sanitizeUrl" => sanitizeUrl(txtStr) = txtStr
    /\ txtOp = "sanitizeProfileName" => sanitizeProfileName(txtStr) = txtStr


(***************************************************************************)
(* Claims about launching (Spec, SpecLaunch)                               *)
(***************************************************************************)
Launched == call.op \in {"launchBrowser", "launchProfile"}

\* the four checks of a launch request, on the cached discovery result
ChecksPass ==
    /\ isValidUrl(sanitizeUrl(call.url))
    /\ isValidProfileName(sanitizeProfileName(call.profile))
    /\ call.browser \in DOMAIN m_cachedBrowsers
    /\ sanitizeProfileName(call.profile) \in DOMAIN m_cachedBrowsers[call.browser].profiles

Reason(message) == Len(call.launchFailed) = 1 /\ call.launchFailed[1].message = message

\* C1: a launch starts a process only if the sanitized URL is valid, the
\* sanitized profile id is valid, the browser is a key of the cached
\* discovery result and the sanitized profile id a key of its profiles; if a
\* check fails the call returns false and starts no process, and a
\* javascript:a(1) URL fails with the invalid-URL reason.
C1_ProcessOnlyWhenChecksPass ==
    Launched =>
        /\ call.spawn # <<>> => ChecksPass
        /\ ~ChecksPass => (call.result = FALSE /\ call.spawn = <<>>)
        /\ call.url = Url_javascript => Reason("Invalid URL: %1")

\* C1 witness: a valid URL and profile name for a detected browser that has
\* no such profile: rejected
C1_Witness ==
    /\ call.op = "launchBrowser"
    /\ call.browser \in DOMAIN m_cachedBrowsers
    /\ isValidUrl(sanitizeUrl(call.url))
    /\ isValidProfileName(sanitizeProfileName(call.profile))
    /\ ~ChecksPass
    /\ call.result = FALSE
    /\ call.spawn = <<>>

\* the profile id after NUL removal and trimming only
StrippedProfile == Trimmed(RemoveChar(call.profile, "NUL"))

\* C5 (as stated): a launch whose profile id, after only NUL removal and
\* trimming, is empty or holds a character outside the class returns
\* false, reports the invalid-profile-name reason and starts no process.
C5_StrippedProfileRejected ==
    (/\ Launched
     /\ \/ StrippedProfile = <<>>
        \/ \E i \in 1..Len(StrippedProfile) : ~IsProfileChar(StrippedProfile[i]))
    => (/\ call.result = FALSE
        /\ call.spawn = <<>>
        /\ Reason("Invalid profile name: %1"))

\* C5 (amended): characters outside the class are deleted, not rejected; a
\* launch whose profile id is empty after NUL removal, trimming and that
\* deletion returns false and starts no process, with the
\* invalid-profile-name reason when the sanitized URL is valid; a process
\* that is started gets the profile id with those characters deleted.
C5_EmptiedProfileRejected ==
    Launched =>
        LET kept == SelectSeq(StrippedProfile, LAMBDA c : c \in ProfileChars)
        IN  /\ kept = <<>> =>
                 /\ call.result = FALSE
                 /\ call.spawn = <<>>
                 /\ isValidUrl(sanitizeUrl(call.url)) => Reason("Invalid profile name: %1")
            /\ call.spawn # <<>> =>
                 \E i \in 1..Len(call.spawn[1].arguments) :
                     call.spawn[1].arguments[i] \in {kept, Str_profileDirectory \o kept}

\* C5 witness: the profile id ";" with a valid URL: rejected as invalid name
C5_Witness ==
    /\ call.op = "launchBrowser"
    /\ call.profile = <<";">>
    /\ call.url = Url_https
    /\ call.result = FALSE
    /\ Reason("Invalid profile name: %1")

\* C6: a started process has the arguments -P, profile, url for Firefox and
\* --profile-directory=profile, url for Chrome and Chromium, with the
\* sanitized profile and URL, the URL last and an entry of its own; the
\* program is the executable the cached discovery result records.
C6_ArgumentVector ==
    (Launched /\ call.spawn # <<>>) =>
        LET p    == call.spawn[1]
            info == m_cachedBrowsers[call.browser]
            prof == SelectSeq(StrippedProfile, LAMBDA c : c \in ProfileChars)
            url  == Trimmed(RemoveChar(call.url, "NUL"))
        IN  /\ Len(call.spawn) = 1
            /\ p.program = info.executable
            /\ info.type = "Firefox" => p.arguments = <<Str_dashP, prof, url>>
            /\ info.type \in {"Chrome", "Chromium"} =>
                  p.arguments = <<Str_profileDirectory \o prof, url>>
            /\ info.type \in {"Firefox", "Chrome", "Chromium"}
            /\ p.arguments[Len(p.arguments)] = url

\* C6 witness: Chrome started from the id "Default" and a padded URL, and the
\* recorded executable is not the browser's plain name
C6_Witness ==
    /\ call.op = "launchBrowser"
    /\ call.spawn # <<>>
    /\ call.browser = "chrome"
    /\ call.url # Url_https
    /\ call.spawn[1].program = "/usr/bin/google-chrome-stable"
    /\ call.spawn[1].arguments = <<Str_profileDirectory \o Str_Default, Url_https>>

\* the reason of the failure path a launch request takes
ExpectedReason ==
    IF ~isValidUrl(sanitizeUrl(call.url)) THEN "Invalid URL: %1"
    ELSE IF ~isValidProfileName(sanitizeProfileName(call.profile))
         THEN "Invalid profile name: %1"
    ELSE IF call.browser \notin DOMAIN m_cachedBrowsers THEN "Browser %1 not found"
    ELSE IF ~ChecksPass THEN "Profile %1 not found for browser %2"
    ELSE "Failed to launch %1: %2"

C9_LastUsedFrame ==
    call.op = "launchProfile" =>
        /\ (call.result /\ cfgRemember) =>
              cfgLastUsed = [browser |-> call.browser, profile |-> call.profile]
        /\ ~(call.result /\ cfgRemember) => cfgLastUsed = call.lastUsedBefore
        /\ call.launched = IF call.result THEN << <<call.browser, call.profile>> >> ELSE <<>>
        /\ call.result = (call.spawn # <<>>)
        /\ call.result = (ChecksPass /\ call.launchFailed = <<>>)

\* C9 witness: a successful launch with the toggle off after another pair
\* was recorded: the pair stays
C9_Witness ==
    /\ call.op = "launchProfile"
    /\ call.result
    /\ ~cfgRemember
    /\ call.lastUsedBefore # NoLastUsed
    /\ call.lastUsedBefore # [browser |-> call.browser, profile |-> call.profile]
    /\ cfgLastUsed = call.lastUsedBefore


(***************************************************************************)
(* QString::operator<: by code unit                                        *)
(***************************************************************************)
AsciiOrder ==
    <<"NUL", "TAB", "LF", " ", "$", "&", "(", ")", "+", "-", ".", "/",
      "0","1","2","3","4","5","6","7","8","9", ":", ";", "<", "=", ">", "?", "@",
      "A","B","C","D","E","F","G","H","I","J","K","L","M",
      "N","O","P","Q","R","S","T","U","V","W","X","Y","Z", "[", "]", "_", "BACKTICK",
      "a","b","c","d","e","f","g","h","i","j","k","l","m",
      "n","o","p","q","r","s","t","u","v","w","x","y","z", "{", "|", "}">>

CharCode(c) == CHOOSE i \in 1..Len(AsciiOrder) : AsciiOrder[i] = c

RECURSIVE QStringLess(_, _)
QStringLess(a, b) ==
    IF b = <<>> THEN FALSE
    ELSE IF a = <<>> THEN TRUE
    ELSE IF Head(a) # Head(b) THEN CharCode(Head(a)) < CharCode(Head(b))
    ELSE QStringLess(Tail(a), Tail(b))

\* the characters of a browser id
BrowserIdChars(b) ==
    CASE b = "firefox"  -> <<"f","i","r","e","f","o","x">>
      [] b = "chrome"   -> <<"c","h","r","o","m","e">>
      [] b = "chromium" -> <<"c","h","r","o","m","i","u","m">>
      [] OTHER          -> <<>>

(***************************************************************************)
(* ConfigManager: the per-profile settings                                 *)
(***************************************************************************)
DefaultOrder == 999

isProfileEnabled(cfg, browser, profile) == MapValue(cfg.enabled, <<browser, profile>>, TRUE)

getProfileDisplayName(cfg, browser, profile) ==
    MapValue(cfg.displayName, <<browser, profile>>, profile)

getProfileOrder(cfg, browser, profile) ==
    MapValue(cfg.order, <<browser, profile>>, DefaultOrder)

\* map with key bound to value
MapPut(map, key, value) ==
    [k \in DOMAIN map \cup {key} |-> IF k = key THEN value ELSE map[k]]

getLastUsed(lastUsed) == <<lastUsed.browser, lastUsed.profile>>

(***************************************************************************)
(* ConfigManager: the override file.  A line of the file is given by what  *)
(* the loader reads from it: indent, the number of leading spaces; skip,   *)
(* whether it is blank or a comment; key, the text between the indent and  *)
(* the first ':' after it, trimmed, "" when there is no such ':' or        *)
(* nothing before it; rest, the characters after that ':', trimmed.  A     *)
(* path within rest is one element.  The line "browsers:" has key          *)
(* "browsers" and no rest.                                                 *)
(***************************************************************************)
YamlEntry(indent, key, rest) == [indent |-> indent, skip |-> FALSE, key |-> key, rest |-> rest]

YamlComment(text) == [indent |-> 0, skip |-> TRUE, key |-> text, rest |-> <<>>]

\* the characters of v as one QString
RECURSIVE Join(_)
Join(v) == IF v = <<>> THEN "" ELSE Head(v) \o Join(Tail(v))

\* isExecutableFile that takes any path that is not empty
isExecutableFile_AnyPath(f, p) == p # ""

isExecutableFile(f, p) == p # "" /\ p \in f.exec

cleanValue(v) ==
    LET t == Trimmed(v)
        quoted == /\ t # <<>>
                  /\ \/ t[1] = "\"" /\ t[Len(t)] = "\""
                     \/ t[1] = "'" /\ t[Len(t)] = "'"
    IN  Trimmed(IF quoted THEN SubSeq(t, 2, Len(t) - 1) ELSE t)

Str_true  == <<"t","r","u","e">>
Str_yes   == <<"y","e","s">>
Str_on    == <<"o","n">>
Str_false == <<"f","a","l","s","e">>
Str_no    == <<"n","o">>
Str_off   == <<"o","f","f">>

\* ok: whether v is one of the words; value: what parseBool returns
parseBool(v) ==
    LET s == ToLower(Trimmed(v))
    IN  IF s \in {Str_true, Str_yes, Str_on, <<"1">>} THEN [ok |-> TRUE, value |-> TRUE]
        ELSE IF s \in {Str_false, Str_no, Str_off, <<"0">>} THEN [ok |-> TRUE, value |-> FALSE]
        ELSE [ok |-> FALSE, value |-> TRUE]

\* the file loadYamlOverrides reads: the one the environment variable
\* names when it is set, else kde-browser-picker.yaml, else .yml
YamlFile(files) ==
    IF files.envSet THEN files.envFile
    ELSE IF files.yaml.exists THEN files.yaml
    ELSE IF files.yml.exists THEN files.yml
    ELSE NoFile

\* one pass of the loop over the lines; st holds the locals inBrowsers,
\* baseIndent and currentKey and the two maps
YamlLine(f, st, line) ==
    IF line.skip THEN st
    ELSE IF ~st.inBrowsers
    THEN IF line.key = "browsers" /\ line.rest = <<>>
         THEN [st EXCEPT !.inBrowsers = TRUE, !.baseIndent = line.indent, !.currentKey = ""]
         ELSE st
    ELSE IF line.indent <= st.baseIndent
    THEN [st EXCEPT !.inBrowsers = FALSE, !.currentKey = ""]
    ELSE IF line.indent = st.baseIndent + 2
    THEN IF line.key = "" THEN st
         ELSE IF line.key \in {"firefox", "chrome", "chromium"}
         THEN IF line.rest # <<>>
              THEN [st EXCEPT
                       !.exec = IF isExecutableFile(f, Join(cleanValue(line.rest)))
                                THEN MapPut(@, line.key, Join(cleanValue(line.rest)))
                                ELSE @,
                       !.currentKey = ""]
              ELSE [st EXCEPT !.currentKey = line.key]
         ELSE [st EXCEPT !.currentKey = ""]
    ELSE IF st.currentKey # "" /\ line.indent >= st.baseIndent + 4 /\ line.key # ""
    THEN IF line.key = "path" /\ line.rest # <<>>
         THEN [st EXCEPT
                  !.exec = IF isExecutableFile(f, Join(cleanValue(line.rest)))
                           THEN MapPut(@, st.currentKey, Join(cleanValue(line.rest)))
                           ELSE @]
         ELSE IF line.key = "enabled" /\ line.rest # <<>>
         THEN [st EXCEPT
                  !.enabled = IF parseBool(cleanValue(line.rest)).ok
                              THEN MapPut(@, st.currentKey,
                                          parseBool(cleanValue(line.rest)).value)
                              ELSE @]
         ELSE st
    ELSE st

RECURSIVE YamlLines(_, _, _)
YamlLines(f, st, lines) ==
    IF lines = <<>> THEN st
    ELSE YamlLines(f, YamlLine(f, st, Head(lines)), Tail(lines))

\* the two maps that loadYamlOverrides leaves
loadYamlOverrides(f, files) ==
    YamlLines(f,
              [inBrowsers |-> FALSE, baseIndent |-> -1, currentKey |-> "",
               exec |-> EmptyMap, enabled |-> EmptyMap],
              YamlFile(files).lines)

\* ensureConfigValid and migrateOldConfig: a configuration without the
\* group General gets the defaults, and one of version 1 becomes version 2
ensuredConfig ==
    [rcFile |-> [exists |-> TRUE, version |-> IF rcFile.version < 2 THEN 2 ELSE rcFile.version],
     cfgTimeout |-> IF rcFile.exists THEN cfgTimeout ELSE DEFAULT_TIMEOUT,
     cfgRemember |-> IF rcFile.exists THEN cfgRemember ELSE TRUE]

ensureConfigValid ==
    /\ rcFile' = ensuredConfig.rcFile
    /\ cfgTimeout' = ensuredConfig.cfgTimeout
    /\ cfgRemember' = ensuredConfig.cfgRemember

\* ConfigManager::ConfigManager
ConfigManager ==
    /\ ensureConfigValid
    /\ \E loaded \in {loadYamlOverrides(fs, yamlFiles)} :
          /\ m_browserExecOverrides' = loaded.exec
          /\ m_browserEnabledOverrides' = loaded.enabled
    /\ call' = CallOf("ConfigManager")
    /\ UNCHANGED <<envVars, detectorVars, cfgLastUsed, cfgProfiles, m_profiles, textVars,
                   yamlFiles, window, m_url, widgetVars>>

\* the template that deployDefaults writes: fifteen comment lines
YamlTemplate ==
    [exists |-> TRUE,
     lines |-> << YamlComment("# KDE Browser Picker YAML configuration"),
                  YamlComment("# Override executable paths only if needed."),
                  YamlComment("# Supported keys under 'browsers': firefox, chrome, chromium"),
                  YamlComment("#"),
                  YamlComment("# Example (inline):"),
                  YamlComment("# browsers:"),
                  YamlComment("#   firefox: /opt/firefox/firefox"),
                  YamlComment("#   chrome: /usr/bin/google-chrome-stable"),
                  YamlComment("#   chromium: /usr/local/bin/chromium"),
                  YamlComment("#"),
                  YamlComment("# Example (nested):"),
                  YamlComment("# browsers:"),
                  YamlComment("#   firefox:"),
                  YamlComment("#     path: /opt/firefox/firefox"),
                  YamlComment("#     enabled: true") >>]

\* deployDefaults that writes the template whether or not a file exists
deployDefaults_AlwaysWrite(c, files, overwriteYaml, osWrites) ==
    [config |-> c,
     files |-> IF osWrites THEN [files EXCEPT !.yaml = YamlTemplate] ELSE files,
     attempted |-> TRUE,
     changed |-> osWrites]

\* deployDefaults on the configuration c and the files of ~/.config;
\* osWrites: QSaveFile can open and commit the file.  attempted: a file
\* was to be written; changed: the value returned
deployDefaults(c, files, overwriteYaml, osWrites) ==
    LET noGeneral  == ~c.rcFile.exists
        yamlExists == files.yaml.exists \/ files.yml.exists
        yamlPath   == IF yamlExists
                      THEN IF overwriteYaml
                           THEN IF files.yaml.exists THEN "yaml" ELSE "yml"
                           ELSE ""
                      ELSE "yaml"
        written    == yamlPath # "" /\ osWrites
    IN  [config |-> IF noGeneral
                    THEN [c EXCEPT !.rcFile.exists = TRUE,
                                   !.cfgTimeout = DEFAULT_TIMEOUT,
                                   !.cfgRemember = TRUE]
                    ELSE c,
         files |-> IF written THEN [files EXCEPT ![yamlPath] = YamlTemplate] ELSE files,
         attempted |-> yamlPath # "",
         changed |-> noGeneral \/ written]

\* main with --init-defaults, and --force when force: constructs a
\* ConfigManager and calls deployDefaults on it
initDefaults(force, osWrites) ==
    /\ \E loaded \in {loadYamlOverrides(fs, yamlFiles)} :
          /\ m_browserExecOverrides' = loaded.exec
          /\ m_browserEnabledOverrides' = loaded.enabled
    /\ \E d \in {deployDefaults(ensuredConfig, yamlFiles, force, osWrites)} :
          /\ rcFile' = d.config.rcFile
          /\ cfgTimeout' = d.config.cfgTimeout
          /\ cfgRemember' = d.config.cfgRemember
          /\ yamlFiles' = d.files
          /\ call' = [CallOf("initDefaults") EXCEPT
                         !.force = force,
                         !.result = d.changed,
                         !.complete = ~d.attempted \/ osWrites,
                         !.again = call.op = "initDefaults" /\ call.complete,
                         !.filesBefore = [rcFile |-> rcFile, cfgTimeout |-> cfgTimeout,
                                          cfgRemember |-> cfgRemember,
                                          yaml |-> yamlFiles.yaml, yml |-> yamlFiles.yml]]
    /\ UNCHANGED <<envVars, detectorVars, cfgLastUsed, cfgProfiles, m_profiles, textVars,
                   window, m_url, widgetVars>>

(***************************************************************************)
(* ProfileManager: the registry                                            *)
(***************************************************************************)
\* ProfileEntry::operator<: order, then browser, then profileDisplayName
EntryLess(a, b) ==
    IF a.order # b.order THEN a.order < b.order
    ELSE IF a.browser # b.browser
         THEN QStringLess(BrowserIdChars(a.browser), BrowserIdChars(b.browser))
    ELSE QStringLess(a.profileDisplayName, b.profileDisplayName)

\* the sequences std::sort can leave: every arrangement of the entries in
\* which no entry is less than one before it (the order among entries that
\* compare equal is not specified)
RECURSIVE SortedArrangements(_)
SortedArrangements(entries) ==
    IF entries = {} THEN {<<>>}
    ELSE UNION { { <<m>> \o t : t \in SortedArrangements(entries \ {m}) } :
                 m \in {x \in entries : \A e \in entries : ~EntryLess(e, x)} }

sortProfiles(profiles) ==
    SortedArrangements({profiles[i] : i \in 1..Len(profiles)})

updateProfileFromConfig(entry, cfg) ==
    LET customName == getProfileDisplayName(cfg, entry.browser, entry.profileId)
    IN  [entry EXCEPT
            !.isEnabled = isProfileEnabled(cfg, entry.browser, entry.profileId),
            !.profileDisplayName =
                IF customName # <<>> /\ customName # entry.profileId
                THEN customName ELSE @,
            !.order = getProfileOrder(cfg, entry.browser, entry.profileId)]

\* the entry refreshProfiles builds for a profile of a browser
EntryOf(cfg, browserId, browserInfo, profileId) ==
    updateProfileFromConfig(
        [ProfileEntry EXCEPT
            !.browser = browserId,
            !.browserDisplayName = browserInfo.name,
            !.profileId = profileId,
            !.profileDisplayName = browserInfo.profiles[profileId].displayName,
            !.iconPath = browserInfo.iconPath,
            !.lastUsed = browserInfo.profiles[profileId].lastUsed,
            !.isDefault = browserInfo.profiles[profileId].isDefault],
        cfg)

\* the lists refreshProfiles can leave in m_profiles
RefreshedProfiles(browsers, cfg) ==
    SortedArrangements(
        UNION { { EntryOf(cfg, b, browsers[b], p) : p \in DOMAIN browsers[b].profiles } :
                b \in DOMAIN browsers })

\* getAllProfiles that returns the disabled entries as well
getAllProfiles_IgnoresEnabledOnly(profiles, enabledOnly) == profiles

getAllProfiles(profiles, enabledOnly) ==
    IF enabledOnly THEN SelectSeq(profiles, LAMBDA entry : entry.isEnabled)
    ELSE profiles

\* positions of the entries of (browser, profileId)
Positions(profiles, browser, profileId) ==
    {i \in 1..Len(profiles) :
        profiles[i].browser = browser /\ profiles[i].profileId = profileId}

\* std::find_if: the first position
FirstPosition(positions) == CHOOSE i \in positions : \A j \in positions : i <= j

\* getProfile that returns the first entry of the list when the pair is absent
getProfile_FirstWhenAbsent(profiles, browser, profileId) ==
    IF Positions(profiles, browser, profileId) # {}
    THEN profiles[FirstPosition(Positions(profiles, browser, profileId))]
    ELSE IF profiles # <<>> THEN Head(profiles) ELSE ProfileEntry

getProfile(profiles, browser, profileId) ==
    IF Positions(profiles, browser, profileId) # {}
    THEN profiles[FirstPosition(Positions(profiles, browser, profileId))]
    ELSE ProfileEntry

\* getDefaultProfile that returns the last-used entry also when disabled
getDefaultProfile_IgnoresEnabled(profiles, lastUsed) ==
    LET entry   == getProfile(profiles, lastUsed.browser, lastUsed.profile)
        enabled == getAllProfiles(profiles, TRUE)
    IN  IF lastUsed.browser # "" /\ lastUsed.profile # <<>> /\ entry.browser # ""
        THEN entry
        ELSE IF enabled # <<>> THEN Head(enabled)
        ELSE ProfileEntry

getDefaultProfile(profiles, lastUsed) ==
    LET entry   == getProfile(profiles, getLastUsed(lastUsed)[1], getLastUsed(lastUsed)[2])
        enabled == getAllProfiles(profiles, TRUE)
    IN  IF /\ getLastUsed(lastUsed)[1] # "" /\ getLastUsed(lastUsed)[2] # <<>>
           /\ entry.browser # "" /\ entry.isEnabled
        THEN entry
        ELSE IF enabled # <<>> THEN Head(enabled)
        ELSE ProfileEntry

(***************************************************************************)
(* MainWindow: selection and the slots of the registry                     *)
(***************************************************************************)
\* selectProfile(item); item is an index of m_profileItems, 0 for nullptr
selectProfile(w, item) ==
    IF w.m_selectedItem = item THEN w
    ELSE IF item # 0
         THEN [w EXCEPT !.m_selectedItem = item,
                        !.searchHasFocus = FALSE,
                        !.openEnabled = TRUE,
                        !.m_timeoutTimer = FALSE,
                        !.m_tickTimer = FALSE]
         ELSE [w EXCEPT !.m_selectedItem = 0, !.openEnabled = FALSE]

\* the slot of profilesRefreshed: one item for each enabled entry, then the
\* item of getDefaultProfile is selected
onProfilesRefreshed(w, profiles, lastUsed) ==
    LET enabled == getAllProfiles(profiles, TRUE)
        items   == [i \in 1..Len(enabled) |->
                       [browser |-> enabled[i].browser,
                        profileId |-> enabled[i].profileId,
                        profileName |-> enabled[i].profileDisplayName,
                        visible |-> TRUE]]
        cleared == [w EXCEPT !.m_profileItems = items, !.m_selectedItem = 0]
        defaultProfile == getDefaultProfile(profiles, lastUsed)
        hits    == {i \in 1..Len(items) :
                       /\ items[i].browser = defaultProfile.browser
                       /\ items[i].profileId = defaultProfile.profileId}
    IN  IF defaultProfile.browser # ""
        THEN IF hits # {} THEN selectProfile(cleared, FirstPosition(hits)) ELSE cleared
        ELSE IF items # <<>> THEN selectProfile(cleared, 1) ELSE cleared

\* what refreshProfiles can do in the current state: the detection result
\* and its timestamp, the sorted list, and what allProfiles() returns to
\* the slots run meanwhile.  m_profiles.clear() comes first; the slots of
\* the signals that the scan of detectBrowsers raises (browserDetected for
\* each browser it detects, profileDetected for each profile of such a
\* browser) run while the list is still cleared
Refreshes ==
    LET cleared == <<>>
        scans   == ~CacheIsFresh(m_cachedBrowsers, m_lastDetection, now)
        d == detectBrowsers(fs, m_cachedBrowsers, m_lastDetection,
                            m_execOverrides, m_enabledOverrides, now)
        signals ==
            Cardinality(DOMAIN d.browsers)
            + Cardinality(UNION { { <<b, p>> : p \in DOMAIN d.browsers[b].profiles } :
                                  b \in DOMAIN d.browsers })
    IN  { [browsers |-> d.browsers, lastDetection |-> d.lastDetection, profiles |-> l,
           seen |-> IF scans THEN [i \in 1..signals |-> cleared] ELSE <<>>] :
          l \in RefreshedProfiles(d.browsers, cfgProfiles) }

refreshProfiles ==
    /\ \E r \in Refreshes :
          /\ m_cachedBrowsers' = r.browsers
          /\ m_lastDetection' = r.lastDetection
          /\ m_profiles' = r.profiles
          /\ call' = [CallOf("refreshProfiles") EXCEPT !.before = Before, !.seen = r.seen]
          \* emit profilesRefreshed(): the slot runs in the dialog that is open
          /\ IF window = "open"
             THEN SetWindow(onProfilesRefreshed(Win, r.profiles, cfgLastUsed))
             ELSE UNCHANGED widgetVars
    /\ UNCHANGED <<envVars, m_execOverrides, m_enabledOverrides, configVars, textVars, fileVars,
                   cfgTimeout, window, m_url>>

setProfileEnabled(browser, profileId, enabled) ==
    /\ cfgProfiles' = [cfgProfiles EXCEPT
                          !.enabled = MapPut(@, <<browser, profileId>>, enabled)]
    /\ m_profiles' =
          IF Positions(m_profiles, browser, profileId) # {}
          THEN [m_profiles EXCEPT
                   ![FirstPosition(Positions(m_profiles, browser, profileId))].isEnabled = enabled]
          ELSE m_profiles
    /\ call' = CallOf("setProfileEnabled")
    /\ UNCHANGED <<envVars, detectorVars, cfgRemember, cfgLastUsed, textVars, fileVars, dialogVars>>

\* map without key
MapRemove(map, key) == [k \in DOMAIN map \ {key} |-> map[k]]

setProfileDisplayName(browser, profileId, name) ==
    /\ cfgProfiles' = [cfgProfiles EXCEPT
                          !.displayName =
                              IF name = <<>> \/ name = profileId
                              THEN MapRemove(@, <<browser, profileId>>)
                              ELSE MapPut(@, <<browser, profileId>>, name)]
    /\ m_profiles' =
          IF Positions(m_profiles, browser, profileId) # {}
          THEN [m_profiles EXCEPT
                   ![FirstPosition(Positions(m_profiles, browser, profileId))].profileDisplayName =
                       IF name = <<>> THEN profileId ELSE name]
          ELSE m_profiles
    /\ call' = CallOf("setProfileDisplayName")
    /\ UNCHANGED <<envVars, detectorVars, cfgRemember, cfgLastUsed, textVars, fileVars, dialogVars>>

\* what one setProfileOrder call can leave: the settings with the order
\* written, and the list with the order of the entry set and sorted again
\* when the entry is in it
OrderSet(profiles, cfg, browser, profileId, order) ==
    { [profiles |-> l,
       cfgProfiles |-> [cfg EXCEPT !.order = MapPut(@, <<browser, profileId>>, order)]] :
      l \in IF Positions(profiles, browser, profileId) # {}
            THEN sortProfiles(
                    [profiles EXCEPT
                        ![FirstPosition(Positions(profiles, browser, profileId))].order = order])
            ELSE {profiles} }

setProfileOrder(browser, profileId, order) ==
    /\ \E r \in OrderSet(m_profiles, cfgProfiles, browser, profileId, order) :
          /\ cfgProfiles' = r.cfgProfiles
          /\ m_profiles' = r.profiles
    /\ call' = CallOf("setProfileOrder")
    /\ UNCHANGED <<envVars, detectorVars, cfgRemember, cfgLastUsed, textVars, fileVars, dialogVars>>

\* the loop of moveProfileUp over its copy of the list: the index of the
\* entry and of the one before it, <<0, 0>> when the loop finds nothing
moveProfileUpPair(profiles, browser, profileId) ==
    LET hits == {i \in 2..Len(profiles) :
                    profiles[i].browser = browser /\ profiles[i].profileId = profileId}
    IN  IF hits = {} THEN <<0, 0>>
        ELSE <<FirstPosition(hits), FirstPosition(hits) - 1>>

\* moveProfileDown whose loop also takes the last entry, with the first
\* entry as the one after it
moveProfileDownPair_WrapsAround(profiles, browser, profileId) ==
    LET hits == {i \in 1..Len(profiles) :
                    profiles[i].browser = browser /\ profiles[i].profileId = profileId}
    IN  IF hits = {} THEN <<0, 0>>
        ELSE <<FirstPosition(hits), (FirstPosition(hits) % Len(profiles)) + 1>>

\* the loop of moveProfileDown: the index of the entry and of the one after
\* it, <<0, 0>> when the loop finds nothing
moveProfileDownPair(profiles, browser, profileId) ==
    LET hits == {i \in 1..(Len(profiles) - 1) :
                    profiles[i].browser = browser /\ profiles[i].profileId = profileId}
    IN  IF hits = {} THEN <<0, 0>>
        ELSE <<FirstPosition(hits), FirstPosition(hits) + 1>>

\* the exchange that gives the neighbour the order of the entry but leaves
\* the entry its own order
SwapOrders_KeepsOwnOrder(profiles, cfg, pair) ==
    IF pair = <<0, 0>> THEN { [profiles |-> profiles, cfgProfiles |-> cfg] }
    ELSE LET copy == profiles
             i == pair[1]
             j == pair[2]
         IN  UNION { OrderSet(r.profiles, r.cfgProfiles,
                              copy[i].browser, copy[i].profileId, copy[i].order) :
                     r \in OrderSet(profiles, cfg,
                                    copy[j].browser, copy[j].profileId, copy[i].order) }

\* the body of the loops of moveProfileUp and moveProfileDown for the entry
\* at pair[1] and its neighbour at pair[2] of the copy: setProfileOrder
\* gives the neighbour the order of the entry, then the entry the order the
\* neighbour had
SwapOrders(profiles, cfg, pair) ==
    IF pair = <<0, 0>> THEN { [profiles |-> profiles, cfgProfiles |-> cfg] }
    ELSE LET copy == profiles
             i == pair[1]
             j == pair[2]
         IN  UNION { OrderSet(r.profiles, r.cfgProfiles,
                              copy[i].browser, copy[i].profileId, copy[j].order) :
                     r \in OrderSet(profiles, cfg,
                                    copy[j].browser, copy[j].profileId, copy[i].order) }

moveProfileUp(browser, profileId) ==
    /\ \E r \in SwapOrders(m_profiles, cfgProfiles,
                            moveProfileUpPair(m_profiles, browser, profileId)) :
          /\ cfgProfiles' = r.cfgProfiles
          /\ m_profiles' = r.profiles
    /\ call' = [CallOf("moveProfileUp") EXCEPT
                   !.browser = browser, !.profile = profileId, !.before = Before]
    /\ UNCHANGED <<envVars, detectorVars, cfgRemember, cfgLastUsed, textVars, fileVars, dialogVars>>

moveProfileDown(browser, profileId) ==
    /\ \E r \in SwapOrders(m_profiles, cfgProfiles,
                            moveProfileDownPair(m_profiles, browser, profileId)) :
          /\ cfgProfiles' = r.cfgProfiles
          /\ m_profiles' = r.profiles
    /\ call' = [CallOf("moveProfileDown") EXCEPT
                   !.browser = browser, !.profile = profileId, !.before = Before]
    /\ UNCHANGED <<envVars, detectorVars, cfgRemember, cfgLastUsed, textVars, fileVars, dialogVars>>

CallGetProfile(browser, profileId) ==
    /\ call' = [CallOf("getProfile") EXCEPT
                   !.browser = browser, !.profile = profileId,
                   !.entry = getProfile(m_profiles, browser, profileId)]
    /\ UNCHANGED <<envVars, detectorVars, configVars, m_profiles, textVars, fileVars, dialogVars>>

CallGetDefaultProfile ==
    /\ call' = [CallOf("getDefaultProfile") EXCEPT
                   !.entry = getDefaultProfile(m_profiles, cfgLastUsed)]
    /\ UNCHANGED <<envVars, detectorVars, configVars, m_profiles, textVars, fileVars, dialogVars>>

(***************************************************************************)
(* SpecRegistry: the registry under refreshes, settings changes, launches  *)
(* and changes of the filesystem                                           *)
(***************************************************************************)
EnableKeys == {<<"firefox", Str_Work>>, <<"chrome", Str_Default>>}
OrderKeys  == {<<"firefox", Str_RnD>>}
Orders     == {1}

RegistryLaunches == {<<"firefox", Str_Work>>, <<"chrome", Str_Default>>, <<"chrome", Str_Work>>}

RegistryNext ==
    \/ Tick(CacheWindow)
    \/ \E f \in Filesystems : FsChange(f)
    \/ refreshProfiles
    \/ \E k \in EnableKeys, e \in BOOLEAN : setProfileEnabled(k[1], k[2], e)
    \/ \E k \in OrderKeys, o \in Orders : setProfileOrder(k[1], k[2], o)
    \/ \E k \in RegistryLaunches : launchProfile(k[1], k[2], Url_https, TRUE)
    \/ CallGetDefaultProfile

SpecRegistry == Init /\ [][RegistryNext]_vars

(***************************************************************************)
(* SpecOrder: the registry under refreshes, changes of display names and   *)
(* orders, moves and lookups                                               *)
(***************************************************************************)
\* Chrome has no profile Work
OrderNext ==
    \/ Tick(CacheWindow)
    \/ \E f \in Filesystems : FsChange(f)
    \/ refreshProfiles
    \/ \E n \in {Str_Work, <<>>} : setProfileDisplayName("firefox", Str_RnD, n)
    \/ \E k \in OrderKeys, o \in Orders : setProfileOrder(k[1], k[2], o)
    \/ \E k \in {<<"firefox", Str_Work>>, <<"firefox", Str_RnD>>, <<"chrome", Str_Work>>} :
          \/ moveProfileUp(k[1], k[2])
          \/ moveProfileDown(k[1], k[2])
          \/ CallGetProfile(k[1], k[2])

SpecOrder == Init /\ [][OrderNext]_vars

(***************************************************************************)
(* SpecReach: launches of the entries of the registry, which refreshes     *)
(* keep in step with the discovery result                                  *)
(***************************************************************************)
\* launchProfile(const ProfileEntry&, url) on entry i of the list
launchProfileEntry(i, url, osAccepts) ==
    /\ i \in 1..Len(m_profiles)
    /\ launchProfile(m_profiles[i].browser, m_profiles[i].profileId, url, osAccepts)

ReachNext ==
    \/ Tick(CacheWindow)
    \/ \E f \in Filesystems : FsChange(f)
    \/ refreshProfiles
    \/ \E i \in 1..5, u \in {Url_https, <<"LF">> \o Url_https \o <<" ">>}, os \in BOOLEAN :
          launchProfileEntry(i, u, os)

SpecReach == Init /\ [][ReachNext]_vars

(***************************************************************************)
(* SpecSettings: the registry under refreshes and the three setters of     *)
(* profile settings, on a filesystem that does not change                  *)
(***************************************************************************)
SettingKeys == {<<"firefox", Str_Work>>, <<"chrome", Str_Profile1>>}

SettingNames == {<<>>, Str_Profile1, Str_Home, <<"X">>}

SettingsNext ==
    \/ refreshProfiles
    \/ \E k \in SettingKeys, e \in BOOLEAN : setProfileEnabled(k[1], k[2], e)
    \/ \E k \in SettingKeys, n \in SettingNames : setProfileDisplayName(k[1], k[2], n)
    \/ \E k \in SettingKeys, o \in Orders : setProfileOrder(k[1], k[2], o)

SpecSettings == Init /\ [][SettingsNext]_vars

(***************************************************************************)
(* MainWindow: the dialog session.  main constructs the window for the URL *)
(* of the command line and shows it; the slots and event handlers then run *)
(* one at a time on the event loop until the dialog is accepted or         *)
(* rejected.  A timer that is active can fire at any later point.          *)
(***************************************************************************)
showEvent(w) ==
    [(IF w.m_profileItems # <<>> THEN selectProfile(w, 1) ELSE w) EXCEPT
        !.searchHasFocus = TRUE]

\* MainWindow window(url); window.show(): the constructor loads the
\* profiles, whose profilesRefreshed reaches onProfilesRefreshed, and then
\* starts the timers when the timeout is positive
main(url) ==
    /\ window = "none"
    /\ \E r \in Refreshes :
          /\ m_cachedBrowsers' = r.browsers
          /\ m_lastDetection' = r.lastDetection
          /\ m_profiles' = r.profiles
          /\ call' = [CallOf("main") EXCEPT !.url = url, !.before = Before, !.seen = r.seen]
          /\ LET loaded == onProfilesRefreshed(Win, r.profiles, cfgLastUsed)
                 built  == [loaded EXCEPT
                               !.m_remainingSeconds = cfgTimeout,
                               !.m_timeoutTimer = IF cfgTimeout > 0 THEN TRUE ELSE @,
                               !.m_tickTimer = IF cfgTimeout > 0 THEN TRUE ELSE @]
             IN  SetWindow(showEvent(built))
    /\ window' = "open"
    /\ m_url' = url
    /\ UNCHANGED <<envVars, m_execOverrides, m_enabledOverrides, configVars, textVars, fileVars,
                   cfgTimeout>>

\* openSelectedProfile() in the dialog as w: launches the selected item and
\* accepts the dialog when that succeeds; when it fails the dialog stays
\* open behind the message box
openSelectedProfile(base, w, osAccepts) ==
    IF w.m_selectedItem = 0
    THEN /\ call' = base
         /\ SetWindow(w)
         /\ UNCHANGED <<envVars, detectorVars, configVars, m_profiles, textVars, fileVars,
                        cfgTimeout, window, m_url>>
    ELSE /\ launchProfileAs([base EXCEPT !.userLaunched = TRUE],
                            w.m_profileItems[w.m_selectedItem].browser,
                            w.m_profileItems[w.m_selectedItem].profileId,
                            m_url, osAccepts)
         /\ SetWindow(w)
         /\ window' = IF call'.result THEN "accepted" ELSE "open"
         /\ m_url' = m_url

\* a click on item gives it the focus (Qt::StrongFocus) and reaches the slot
onProfileClicked(item) ==
    /\ window = "open"
    /\ item \in 1..Len(m_profileItems)
    /\ m_profileItems[item].visible
    /\ SetWindow(selectProfile([Win EXCEPT !.searchHasFocus = FALSE], item))
    /\ call' = [CallOf("onProfileClicked") EXCEPT !.item = item, !.userSelected = TRUE]
    /\ UNCHANGED <<envVars, detectorVars, configVars, m_profiles, textVars, fileVars,
                   cfgTimeout, window, m_url>>

onProfileDoubleClicked(item, osAccepts) ==
    /\ window = "open"
    /\ item \in 1..Len(m_profileItems)
    /\ m_profileItems[item].visible
    /\ openSelectedProfile([CallOf("onProfileDoubleClicked") EXCEPT !.item = item,
                                                                 !.userSelected = TRUE],
                           selectProfile([Win EXCEPT !.searchHasFocus = FALSE], item),
                           osAccepts)

\* keyPressEvent for a key that reaches the window: searchLineEdit keeps
\* the number keys typed into it.  number: the number of a key Qt::Key_1 ..
\* Qt::Key_9, 0 for any other key; indices count from 0 as in the code;
\* visible: the indices of the items that are visible, in the order of
\* m_profileItems; item: the item that the key press is about, the item of
\* the number or the item that an arrow key moves to, 0 when there is none
keyPressEvent(key, osAccepts) ==
    /\ window = "open"
    /\ key \in Digits => ~searchHasFocus
    /\ LET number == IF key \in Digits \ {"0"} THEN DigitValue(key) ELSE 0
           visible == SelectSeq([i \in 1..Len(m_profileItems) |-> i],
                                LAMBDA i : m_profileItems[i].visible)
           hits == {i \in 1..Len(visible) : visible[i] = m_selectedItem}
           currentIndex == IF hits = {} THEN -1 ELSE FirstPosition(hits) - 1
           newIndex ==
               IF key = "Up" /\ currentIndex > 0 THEN currentIndex - 1
               ELSE IF key = "Down" /\ currentIndex < Len(visible) - 1
                    THEN currentIndex + 1
               ELSE currentIndex
           moves == /\ newIndex # currentIndex
                    /\ newIndex >= 0
                    /\ newIndex < Len(visible)
           item == IF number # 0
                   THEN IF number <= Len(m_profileItems) THEN number ELSE 0
                   ELSE IF key \in {"Up", "Down"} /\ ~(searchHasFocus /\ key = "Down") /\ moves
                        THEN visible[newIndex + 1]
                   ELSE 0
           base == [CallOf("keyPressEvent") EXCEPT !.key = key, !.item = item,
                                                   !.userSelected = @ \/ item # 0]
           stay(w) ==
               /\ SetWindow(w)
               /\ call' = base
               /\ UNCHANGED <<envVars, detectorVars, configVars, m_profiles, textVars, fileVars,
                              cfgTimeout, window, m_url>>
       IN  IF number # 0 /\ ~(searchHasFocus /\ searchText # <<>>)
           THEN \* selectProfileByNumber
                IF number <= Len(m_profileItems)
                THEN openSelectedProfile(base, selectProfile(Win, number), osAccepts)
                ELSE stay(Win)
           ELSE IF key \in {"Up", "Down"}
           THEN IF searchHasFocus /\ key = "Down"
                THEN stay(IF m_profileItems # <<>> /\ m_selectedItem # 0
                          THEN [Win EXCEPT !.searchHasFocus = FALSE] ELSE Win)
                ELSE IF moves
                     THEN stay(selectProfile(Win, visible[newIndex + 1]))
                     ELSE stay(Win)
           ELSE IF key = "Return" /\ m_selectedItem # 0 /\ openEnabled
           THEN openSelectedProfile(base, Win, osAccepts)
           ELSE IF key = "Ctrl+F"
           THEN stay([Win EXCEPT !.searchHasFocus = TRUE])
           ELSE stay(Win)

\* the user edits the search text
onSearchTextChanged(text) ==
    /\ window = "open"
    /\ searchHasFocus
    /\ text # searchText
    /\ LET searched == ToLower(Trimmed(text))
           shown(item) ==
               \/ searched = <<>>
               \/ Contains(ToLower(BrowserIdChars(item.browser)), searched)
               \/ Contains(ToLower(item.profileName), searched)
           w == [Win EXCEPT
                    !.searchText = text,
                    !.m_profileItems =
                        [i \in 1..Len(m_profileItems) |->
                            [m_profileItems[i] EXCEPT !.visible = shown(m_profileItems[i])]]]
           firstVisible == {i \in 1..Len(w.m_profileItems) : w.m_profileItems[i].visible}
       IN  SetWindow(
               IF w.m_selectedItem # 0 /\ ~w.m_profileItems[w.m_selectedItem].visible
               THEN IF firstVisible # {}
                    THEN selectProfile(w, FirstPosition(firstVisible))
                    ELSE [w EXCEPT !.m_selectedItem = 0, !.openEnabled = FALSE]
               ELSE w)
    /\ call' = CallOf("onSearchTextChanged")
    /\ UNCHANGED <<envVars, detectorVars, configVars, m_profiles, textVars, fileVars,
                   cfgTimeout, window, m_url>>

onOpenClicked(osAccepts) ==
    /\ window = "open"
    /\ openEnabled
    /\ openSelectedProfile(CallOf("onOpenClicked"), Win, osAccepts)

\* cancelButton and the Escape shortcut: reject()
onCancelClicked ==
    /\ window = "open"
    /\ window' = "rejected"
    /\ call' = CallOf("onCancelClicked")
    /\ UNCHANGED <<envVars, detectorVars, configVars, m_profiles, textVars, fileVars,
                   cfgTimeout, m_url, widgetVars>>

\* the single-shot auto-select timer fires
onTimeout(osAccepts) ==
    /\ window = "open"
    /\ m_timeoutTimer
    /\ \E defaultProfile \in {getDefaultProfile(m_profiles, cfgLastUsed)} :
          IF defaultProfile.browser # ""
          THEN /\ launchProfileAs(CallOf("onTimeout"), defaultProfile.browser,
                                  defaultProfile.profileId, m_url, osAccepts)
               /\ window' = "accepted"
          ELSE /\ call' = CallOf("onTimeout")
               /\ window' = "rejected"
               /\ UNCHANGED <<envVars, detectorVars, configVars, m_profiles, textVars, fileVars,
                              cfgTimeout>>
    /\ SetWindow([Win EXCEPT !.m_timeoutTimer = FALSE])
    /\ m_url' = m_url

\* the countdown timer fires
onTimeoutTick ==
    /\ window = "open"
    /\ m_tickTimer
    /\ SetWindow([Win EXCEPT !.m_remainingSeconds = @ - 1,
                             !.m_tickTimer = ~(m_remainingSeconds - 1 <= 0)])
    /\ call' = CallOf("onTimeoutTick")
    /\ UNCHANGED <<envVars, detectorVars, configVars, m_profiles, textVars, fileVars,
                   cfgTimeout, window, m_url>>

(***************************************************************************)
(* SpecDialog: one dialog session, from the command line to the end of the *)
(* dialog, under user events, timers, refreshes and changes of the timeout *)
(***************************************************************************)
\* the configuration that earlier sessions left
DialogInit ==
    /\ fs \in Filesystems
    /\ now = 0
    /\ DetectorInit
    /\ FilesIdle
    /\ cfgRemember = TRUE
    /\ cfgLastUsed \in {NoLastUsed, [browser |-> "firefox", profile |-> Str_Work]}
    /\ cfgProfiles = NoProfileSettings
    /\ m_profiles = <<>>
    /\ call = NoCall
    /\ cfgTimeout = MIN_TIMEOUT
    /\ WindowIdle
    /\ TextIdle

DialogNext ==
    \/ main(Url_https)
    \/ \E i \in 1..2 : onProfileClicked(i)
    \/ \E i \in 1..2, os \in BOOLEAN : onProfileDoubleClicked(i, os)
    \/ \E k \in {"1", "2", "Up", "Down", "Return", "Ctrl+F"}, os \in BOOLEAN :
          keyPressEvent(k, os)
    \/ \E t \in {<<>>, <<"W", "o">>, <<"z">>} : onSearchTextChanged(t)
    \/ \E os \in BOOLEAN : onOpenClicked(os)
    \/ onCancelClicked
    \/ \E os \in BOOLEAN : onTimeout(os)
    \/ onTimeoutTick
    \/ window = "open" /\ \E s \in {MIN_TIMEOUT, MIN_TIMEOUT + 1} : setDefaultTimeout(s)
    \/ window = "open" /\ refreshProfiles

SpecDialog == DialogInit /\ [][DialogNext]_vars

(***************************************************************************)
(* SpecPicker: a dialog session on a configuration in which earlier        *)
(* sessions disabled profiles.  Nothing in the program calls               *)
(* setProfileEnabled while the dialog is open (the settings dialogs of     *)
(* onProfileSettingsClicked and onSettingsClicked are not implemented), so *)
(* the enabled flags change between sessions only                          *)
(***************************************************************************)
\* Browsers/<browser>/<profile>/enabled = false for each pair of keys
DisabledProfiles(keys) ==
    [NoProfileSettings EXCEPT !.enabled = [k \in keys |-> FALSE]]

PickerInit ==
    /\ fs \in Filesystems
    /\ now = 0
    /\ DetectorInit
    /\ FilesIdle
    /\ cfgRemember = TRUE
    /\ cfgLastUsed \in {NoLastUsed, [browser |-> "firefox", profile |-> Str_Work]}
    /\ cfgProfiles \in {DisabledProfiles({<<"firefox", Str_Work>>}),
                        DisabledProfiles({<<"firefox", Str_Work>>, <<"firefox", Str_RnD>>})}
    /\ m_profiles = <<>>
    /\ call = NoCall
    /\ cfgTimeout = MIN_TIMEOUT
    /\ WindowIdle
    /\ TextIdle

PickerNext ==
    \/ main(Url_https)
    \/ \E i \in 1..2 : onProfileClicked(i)
    \/ \E i \in 1..2, os \in BOOLEAN : onProfileDoubleClicked(i, os)
    \/ \E k \in {"1", "2", "Down", "Return"}, os \in BOOLEAN : keyPressEvent(k, os)
    \/ \E os \in BOOLEAN : onOpenClicked(os)
    \/ onCancelClicked
    \/ \E os \in BOOLEAN : onTimeout(os)
    \/ onTimeoutTick
    \/ window = "open" /\ refreshProfiles

SpecPicker == PickerInit /\ [][PickerNext]_vars

(***************************************************************************)
(* SpecIdle: a dialog session in which the user does nothing: the window   *)
(* is opened and only its timers run.  A QTimer that is active fires when  *)
(* the event loop runs, so both timer slots are weakly fair.  onTimeout is *)
(* enabled exactly when the auto-select timer is active in the open        *)
(* dialog, and it is the only step of IdleNext that ends the dialog, so    *)
(* its fairness is stated on window alone.                                 *)
(***************************************************************************)
Url_file == Str_file \o <<":", "/", "/", "/", "a">>

IdleInit ==
    /\ fs \in Filesystems
    /\ now = 0
    /\ DetectorInit
    /\ FilesIdle
    /\ cfgRemember \in BOOLEAN
    /\ cfgLastUsed \in {NoLastUsed, [browser |-> "firefox", profile |-> Str_Work],
                        [browser |-> "chrome", profile |-> Str_Default]}
    /\ cfgProfiles = NoProfileSettings
    /\ m_profiles = <<>>
    /\ call = NoCall
    /\ cfgTimeout \in {MIN_TIMEOUT, MIN_TIMEOUT + 1}
    /\ WindowIdle
    /\ TextIdle

IdleNext ==
    \/ \E url \in {Url_https, Url_file} : main(url)
    \/ \E os \in BOOLEAN : onTimeout(os)
    \/ onTimeoutTick

SpecIdle ==
    /\ IdleInit
    /\ [][IdleNext]_vars
    /\ WF_window(window = "open" /\ m_timeoutTimer /\ window' \in {"accepted", "rejected"})
    /\ WF_vars(onTimeoutTick)

(***************************************************************************)
(* SpecTimeout: the timeout setting under writes of any int, before and    *)
(* while a dialog is open and counting down                                *)
(***************************************************************************)
\* from INT_MIN to INT_MAX
TimeoutInputs ==
    {-2147483647 - 1, -1, 0, MIN_TIMEOUT - 1, MIN_TIMEOUT, MIN_TIMEOUT + 1, DEFAULT_TIMEOUT,
     MAX_TIMEOUT - 1, MAX_TIMEOUT, MAX_TIMEOUT + 1, 2147483647}

TimeoutNext ==
    \/ \E s \in TimeoutInputs : setDefaultTimeout(s)
    \/ \E r \in BOOLEAN : setRememberLastUsed(r)
    \/ main(Url_https)
    \/ onTimeoutTick

SpecTimeout == Init /\ [][TimeoutNext]_vars

(***************************************************************************)
(* SpecYaml: the constructor of ConfigManager on override files of up to   *)
(* MaxLines lines, on a system with Firefox installed                      *)
(***************************************************************************)
MaxLines == 4

YamlLineKinds ==
    {YamlEntry(0, "browsers", <<>>),
     YamlEntry(0, "other", <<>>),
     YamlEntry(2, "firefox", <<"/usr/bin/firefox">>),
     YamlEntry(2, "chrome", <<>>),
     YamlEntry(2, "opera", <<"/usr/bin/firefox">>),
     YamlEntry(4, "path", <<"'", "/opt/firefox/firefox-bin", "'">>),
     YamlEntry(4, "path", <<"/etc/hosts">>),
     YamlEntry(4, "enabled", <<"O", "f", "f">>),
     YamlEntry(4, "enabled", <<"m", "a", "y", "b", "e">>)}

YamlContents == {[exists |-> TRUE, lines |-> l] : l \in SeqsUpTo(YamlLineKinds, MaxLines)}

\* the file is ~/.config/kde-browser-picker.yaml; a short one can also be
\* the .yml file or the file that the environment variable names
YamlFileSets ==
    {[envSet |-> FALSE, envFile |-> NoFile, yaml |-> c, yml |-> NoFile] :
        c \in YamlContents \cup {NoFile}}
    \cup {[envSet |-> FALSE, envFile |-> NoFile, yaml |-> NoFile, yml |-> c] :
        c \in {x \in YamlContents : Len(x.lines) <= 2}}
    \cup {[envSet |-> TRUE, envFile |-> c, yaml |-> NoFile, yml |-> NoFile] :
        c \in {x \in YamlContents : Len(x.lines) <= 2} \cup {NoFile}}

YamlInit ==
    /\ fs = FsFirefox
    /\ now = 0
    /\ DetectorInit
    /\ rcFile = [exists |-> TRUE, version |-> 2]
    /\ yamlFiles \in YamlFileSets
    /\ m_browserExecOverrides = EmptyMap
    /\ m_browserEnabledOverrides = EmptyMap
    /\ cfgRemember = TRUE
    /\ cfgLastUsed = NoLastUsed
    /\ cfgProfiles = NoProfileSettings
    /\ m_profiles = <<>>
    /\ call = NoCall
    /\ cfgTimeout = DEFAULT_TIMEOUT
    /\ WindowIdle
    /\ TextIdle

SpecYaml == YamlInit /\ [][ConfigManager]_vars

(***************************************************************************)
(* SpecDeploy: runs of the program with --init-defaults, with and without  *)
(* --force, on any starting set of configuration files                     *)
(***************************************************************************)
\* an override file that a user wrote
YamlCustom ==
    [exists |-> TRUE,
     lines |-> << YamlEntry(0, "browsers", <<>>),
                  YamlEntry(2, "firefox", <<"/opt/firefox/firefox-bin">>) >>]

DeployInit ==
    /\ fs = FsFirefox
    /\ now = 0
    /\ DetectorInit
    /\ rcFile \in {[exists |-> FALSE, version |-> 1], [exists |-> TRUE, version |-> 1],
                   [exists |-> TRUE, version |-> 2]}
    /\ cfgTimeout \in IF rcFile.exists THEN {MIN_TIMEOUT, DEFAULT_TIMEOUT} ELSE {DEFAULT_TIMEOUT}
    /\ cfgRemember \in IF rcFile.exists THEN BOOLEAN ELSE {TRUE}
    /\ yamlFiles \in [envSet : BOOLEAN, envFile : {NoFile, YamlCustom},
                      yaml : {NoFile, YamlCustom, YamlTemplate},
                      yml : {NoFile, YamlCustom, YamlTemplate}]
    /\ m_browserExecOverrides = EmptyMap
    /\ m_browserEnabledOverrides = EmptyMap
    /\ cfgLastUsed = NoLastUsed
    /\ cfgProfiles = NoProfileSettings
    /\ m_profiles = <<>>
    /\ call = NoCall
    /\ WindowIdle
    /\ TextIdle

DeployNext == \E force, osWrites \in BOOLEAN : initDefaults(force, osWrites)

SpecDeploy == DeployInit /\ [][DeployNext]_vars

(***************************************************************************)
(* Claims about the registry (SpecRegistry)                                *)
(***************************************************************************)
\* the last-used pair is recorded
LastUsedRecorded == cfgLastUsed.browser # "" /\ cfgLastUsed.profile # <<>>

\* the registry entries of the last-used pair
LastUsedEntries ==
    {m_profiles[i] : i \in Positions(m_profiles, cfgLastUsed.browser, cfgLastUsed.profile)}

\* C10: defaultProfile() returns the entry of the last-used pair iff the
\* pair is recorded, is in the registry and is enabled; otherwise the first
\* entry of allProfiles(enabledOnly = true); the entry with an empty browser
\* id when there is none.
C10_DefaultProfile ==
    call.op = "getDefaultProfile" =>
        LET usable  == {e \in LastUsedEntries : LastUsedRecorded /\ e.isEnabled}
            enabled == {i \in 1..Len(m_profiles) : m_profiles[i].isEnabled}
        IN  /\ usable # {} => call.entry \in usable
            /\ (usable = {} /\ enabled # {}) =>
                  /\ call.entry = m_profiles[CHOOSE i \in enabled : \A j \in enabled : i <= j]
                  /\ call.entry \notin LastUsedEntries
            /\ (usable = {} /\ enabled = {}) =>
                  /\ call.entry.browser = ""
                  /\ call.entry = ProfileEntry

\* C10 witness: the last-used pair is in the registry but disabled, and the
\* first enabled entry is returned
C10_Witness ==
    /\ call.op = "getDefaultProfile"
    /\ LastUsedRecorded
    /\ LastUsedEntries # {}
    /\ \A e \in LastUsedEntries : ~e.isEnabled
    /\ call.entry.browser # ""
    /\ call.entry \notin LastUsedEntries


(***************************************************************************)
(* Claims about the order of the registry (SpecOrder)                      *)
(***************************************************************************)
\* no entry of the list is less than one before it
IsSorted(profiles) ==
    \A i, j \in 1..Len(profiles) : i < j => ~EntryLess(profiles[j], profiles[i])

\* C14: after every refreshProfiles the list is sorted ascending by (order,
\* browser id, profile display name), no two distinct entries of it compare
\* equal, and sorting it again can only yield the same sequence.
C14_SortedByStrictTotalOrder ==
    call.op = "refreshProfiles" =>
        /\ IsSorted(m_profiles)
        /\ \A i, j \in 1..Len(m_profiles) :
              i # j => EntryLess(m_profiles[i], m_profiles[j]) \/ EntryLess(m_profiles[j], m_profiles[i])
        /\ sortProfiles(m_profiles) = {m_profiles}

\* C15: the registry has at most one entry for each (browser id, profile
\* id) pair, and getProfile returns that entry when there is one and else
\* the entry with an empty browser id.
C15_UniqueKeyAndLookup ==
    /\ \A i, j \in 1..Len(m_profiles) :
          (m_profiles[i].browser = m_profiles[j].browser
              /\ m_profiles[i].profileId = m_profiles[j].profileId) => i = j
    /\ call.op = "getProfile" =>
          IF \E i \in 1..Len(m_profiles) :
                m_profiles[i].browser = call.browser /\ m_profiles[i].profileId = call.profile
          THEN /\ call.entry \in {m_profiles[i] : i \in 1..Len(m_profiles)}
               /\ call.entry.browser = call.browser
               /\ call.entry.profileId = call.profile
          ELSE /\ call.entry.browser = ""
               /\ call.entry = ProfileEntry

\* C15 witness: getProfile is called for a pair that the registry, which has
\* several entries, does not have, and returns the entry with an empty
\* browser id
C15_Witness ==
    /\ call.op = "getProfile"
    /\ Len(m_profiles) > 1
    /\ \A i \in 1..Len(m_profiles) :
          ~(m_profiles[i].browser = call.browser /\ m_profiles[i].profileId = call.profile)
    /\ call.entry.browser = ""

\* C16: refreshProfiles publishes the new list atomically: at every slot run
\* while it executes, those of the browserDetected and profileDetected
\* signals of discovery included, allProfiles() returns the complete
\* previous list or the complete new sorted list.
C16_RefreshAtomic ==
    call.op = "refreshProfiles" =>
        \A k \in 1..Len(call.seen) :
            call.seen[k] = call.before.profiles \/ call.seen[k] = m_profiles

\* the last operation was a move
Moved == call.op \in {"moveProfileUp", "moveProfileDown"}

\* the indices, in the list before the move, of the entry moved and of its
\* neighbour in the direction of the move; <<0, 0>> when the pair is not
\* in that list or has no such neighbour
MovedPair ==
    LET l    == call.before.profiles
        hits == {i \in 1..Len(l) :
                    l[i].browser = call.browser /\ l[i].profileId = call.profile}
        i    == CHOOSE x \in hits : TRUE
        j    == IF call.op = "moveProfileUp" THEN i - 1 ELSE i + 1
    IN  IF hits = {} THEN <<0, 0>>
        ELSE IF j \in 1..Len(l) THEN <<i, j>> ELSE <<0, 0>>

\* the order of the pair in a list that has it
OrderIn(profiles, browser, profileId) ==
    getProfile(profiles, browser, profileId).order

\* the bag of the order values of a list
OrderBag(profiles) ==
    [o \in {profiles[i].order : i \in 1..Len(profiles)} |->
        Cardinality({i \in 1..Len(profiles) : profiles[i].order = o})]

\* C17: a move of an entry that has a neighbour in the direction of the move
\* exchanges the order values of the entry and that neighbour, in the
\* registry and in the persisted settings, leaves the order value of every
\* other entry unchanged, preserves the multiset of order values and leaves
\* the list sorted.
C17_MoveSwapsOrders ==
    (Moved /\ MovedPair # <<0, 0>>) =>
        LET old == call.before.profiles
            e   == old[MovedPair[1]]
            n   == old[MovedPair[2]]
        IN  /\ OrderIn(m_profiles, e.browser, e.profileId) = n.order
            /\ OrderIn(m_profiles, n.browser, n.profileId) = e.order
            /\ getProfileOrder(cfgProfiles, e.browser, e.profileId) = n.order
            /\ getProfileOrder(cfgProfiles, n.browser, n.profileId) = e.order
            /\ \A k \in 1..Len(old) :
                  k \notin {MovedPair[1], MovedPair[2]} =>
                      /\ OrderIn(m_profiles, old[k].browser, old[k].profileId) = old[k].order
                      /\ getProfileOrder(cfgProfiles, old[k].browser, old[k].profileId)
                            = getProfileOrder(call.before.cfgProfiles, old[k].browser, old[k].profileId)
            /\ Len(m_profiles) = Len(old)
            /\ OrderBag(m_profiles) = OrderBag(old)
            /\ IsSorted(m_profiles)

\* C17 witness: a move has exchanged two different order values in a list of
\* more than two entries
C17_Witness ==
    /\ Moved
    /\ MovedPair # <<0, 0>>
    /\ Len(call.before.profiles) > 2
    /\ call.before.profiles[MovedPair[1]].order # call.before.profiles[MovedPair[2]].order
    /\ OrderIn(m_profiles, call.browser, call.profile)
          = call.before.profiles[MovedPair[2]].order

\* C18: a move of an entry that has a neighbour in the direction of the move
\* leaves the previous list with the entry and that neighbour exchanged
\* and every other entry at its previous index, whatever the order values
\* are.
C18_MoveByOnePosition ==
    (Moved /\ MovedPair # <<0, 0>>) =>
        LET old == call.before.profiles
            i   == MovedPair[1]
            j   == MovedPair[2]
            key(x) == <<x.browser, x.profileId>>
        IN  /\ Len(m_profiles) = Len(old)
            /\ key(m_profiles[i]) = key(old[j])
            /\ key(m_profiles[j]) = key(old[i])
            /\ \A k \in 1..Len(old) : k \notin {i, j} => key(m_profiles[k]) = key(old[k])

\* C19: moveProfileDown on the last entry, moveProfileUp on the first entry
\* and either move on a pair that is not in the registry change neither the
\* list nor any persisted setting.
C19_MoveWithoutNeighbour ==
    (Moved /\ MovedPair = <<0, 0>>) =>
        /\ m_profiles = call.before.profiles
        /\ cfgProfiles = call.before.cfgProfiles

\* C19 witness: moveProfileDown was called on the last entry of a list whose
\* first entry has another order value
C19_Witness ==
    /\ call.op = "moveProfileDown"
    /\ Len(m_profiles) > 1
    /\ m_profiles[Len(m_profiles)].browser = call.browser
    /\ m_profiles[Len(m_profiles)].profileId = call.profile
    /\ m_profiles[1].order # m_profiles[Len(m_profiles)].order
    /\ m_profiles = call.before.profiles

(***************************************************************************)
(* Claims about discovery (SpecDetect).  detectBrowsers returns the map it *)
(* leaves in m_cachedBrowsers.                                             *)
(***************************************************************************)
Detected == call.op = "detectBrowsers"

\* C11: the map a detectBrowsers call returns has no key for a browser that
\* an enabled-override marks disabled at the time of the call, after any
\* sequence of override changes and earlier calls.
C11_DisabledBrowserExcluded ==
    Detected =>
        \A b \in Browsers :
            DisabledByOverride(m_enabledOverrides, b) => b \notin DOMAIN m_cachedBrowsers

\* the executable the normal search finds for browser b, "" when none
NormalSearch(b) == DetectedExecutable(fs, EmptyMap, EmptyMap, b)

\* C12: a scan ignores an executable override that names no existing
\* executable file: the browser gets the executable of the normal search,
\* or is left out when that finds none.
C12_MissingOverrideIgnored ==
    (Detected /\ ~CacheIsFresh(call.before.cached, call.before.lastDetection, now)) =>
        \A b \in DOMAIN m_execOverrides :
            (m_execOverrides[b] # "" /\ m_execOverrides[b] \notin fs.exec
                /\ ~DisabledByOverride(m_enabledOverrides, b)) =>
                IF NormalSearch(b) = "" THEN b \notin DOMAIN m_cachedBrowsers
                ELSE /\ b \in DOMAIN m_cachedBrowsers
                     /\ m_cachedBrowsers[b].executable = NormalSearch(b)

\* C13: a detectBrowsers call less than 5 seconds after the previous scan
\* returns the cached result and leaves cache and timestamp alone, whatever
\* the result was, an empty one included; a call 5 seconds or more after
\* it, or with no scan before, scans and replaces cache and timestamp.
C13_CacheWindow ==
    Detected =>
        IF call.before.lastDetection # -1 /\ now - call.before.lastDetection < CacheWindow
        THEN /\ m_cachedBrowsers = call.before.cached
             /\ m_lastDetection = call.before.lastDetection
        ELSE /\ m_cachedBrowsers = ScanBrowsers(fs, m_execOverrides, m_enabledOverrides)
             /\ m_lastDetection = now

(***************************************************************************)
(* Claims about the dialog (SpecDialog)                                    *)
(***************************************************************************)
\* the last step was a click, a double click, an arrow key or a number key
\* on a profile item
SelectionInteraction ==
    /\ call.op \in {"onProfileClicked", "onProfileDoubleClicked", "keyPressEvent"}
    /\ call.item # 0

\* C20: when the handler of a click, a double click, an arrow key or a
\* number key on a profile item returns, the item being already selected or
\* not, the auto-select timer is not pending.
C20_SelectionCancelsTimer ==
    SelectionInteraction => ~m_timeoutTimer

\* C21: once the user has selected a profile item, the auto-select callback
\* onTimeout does not run for the rest of the dialog session, whatever
\* events follow (changes of the configuration, of the search text, or
\* refreshes of the profiles).
C21_NoTimeoutAfterSelection ==
    call.op = "onTimeout" => ~call.userSelected

\* the last step was onTimeout and it did what the default profile asks
\* for: launchProfile of getDefaultProfile() with the URL of the dialog,
\* or reject() without a launch when no profile is enabled
TimeoutActed ==
    /\ call.op = "onTimeout"
    /\ LET defaultProfile == getDefaultProfile(m_profiles, call.lastUsedBefore)
       IN  IF getAllProfiles(m_profiles, TRUE) # <<>>
           THEN /\ call.browser = defaultProfile.browser
                /\ call.profile = defaultProfile.profileId
                /\ call.url = m_url
                /\ window = "accepted"
           ELSE /\ call.browser = ""
                /\ call.spawn = <<>>
                /\ window = "rejected"

\* C22: a dialog that is opened with a positive timeout and that the user
\* leaves alone is eventually ended by the auto-select timer, which
\* launches the default profile with the URL of the dialog, or closes the
\* dialog without a launch when no profile is enabled, wherever the
\* default profile is in the list.
C22_IdleTimeoutFires ==
    /\ (window = "open" /\ cfgTimeout > 0) ~> TimeoutActed
    /\ [](call.op = "onTimeout" => TimeoutActed)

(***************************************************************************)
(* Claims about the enumeration of Chromium-family profiles (SpecChromium) *)
(***************************************************************************)
\* the last step was getChromeProfiles, for the config root call.browser
Enumerated == call.op = "getChromeProfiles"

\* the directory names of info_cache whose directory exists under the root
ExistingCacheDirs(root) ==
    {fs.localState[root].infoCache[i].dir : i \in 1..Len(fs.localState[root].infoCache)}
    \cap {dir \in ProfileDirs : <<root, dir>> \in fs.dirs}

\* C23: getChromeProfiles returns the empty map when the Local State file
\* is absent; when the file is present the map has the key "Default" and,
\* besides it, exactly the directory names of info_cache whose directory
\* exists, each entry keyed by its directory name.
C23_ChromiumEnumeration ==
    Enumerated =>
        IF fs.localState[call.browser].state = "absent"
        THEN call.profiles = EmptyMap
        ELSE /\ Str_Default \in DOMAIN call.profiles
             /\ DOMAIN call.profiles \ {Str_Default}
                    = ExistingCacheDirs(call.browser) \ {Str_Default}
             /\ \A k \in DOMAIN call.profiles : call.profiles[k].path = k

\* the config root of the other Chromium-family browser
OtherRoot(root) == IF root = "google-chrome" THEN "chromium" ELSE "google-chrome"

\* C24: Chrome and Chromium get the same profile keys and display names
\* from the same files under their config roots, and for both the
\* last-used time of a profile is the modification time of its Preferences
\* file when that file exists and that of its directory otherwise.
C24_ChromeLikeChromium ==
    Enumerated =>
        LET other == getChromeProfiles(fs, OtherRoot(call.browser))
        IN  /\ DOMAIN call.profiles = DOMAIN other
            /\ \A k \in DOMAIN call.profiles :
                  /\ call.profiles[k].displayName = other[k].displayName
                  /\ call.profiles[k].lastUsed =
                        IF <<call.browser, k>> \in fs.prefs
                        THEN <<"mtime", call.browser, k, "Preferences">>
                        ELSE <<"mtime", call.browser, k>>

(***************************************************************************)
(* Claims about the entries that refreshProfiles builds                    *)
(***************************************************************************)
\* the last step was refreshProfiles
Refreshed == call.op = "refreshProfiles"

\* C25: after refreshProfiles the display name of each entry is the
\* display name stored in the configuration for its (browser, profile) pair
\* when one is stored and the profile id otherwise, its enabled flag is the
\* configured value, true when none is stored, and its order is the
\* configured value, 999 when none is stored (SpecOrder).
C25_EntryFromConfig ==
    Refreshed =>
        \A i \in 1..Len(m_profiles) :
            LET e   == m_profiles[i]
                key == <<e.browser, e.profileId>>
            IN  /\ e.profileDisplayName = MapValue(cfgProfiles.displayName, key, e.profileId)
                /\ e.isEnabled = MapValue(cfgProfiles.enabled, key, TRUE)
                /\ e.order = MapValue(cfgProfiles.order, key, DefaultOrder)

\* C26: after refreshProfiles the isDefault flag of an entry is true
\* exactly when the entry is the recorded last-used pair or, when no
\* last-used pair is recorded, when the browser reports the profile as its
\* default (SpecRegistry).
C26_DefaultFlag ==
    Refreshed =>
        \A i \in 1..Len(m_profiles) :
            LET e == m_profiles[i]
            IN  e.isDefault =
                    IF LastUsedRecorded
                    THEN e.browser = cfgLastUsed.browser /\ e.profileId = cfgLastUsed.profile
                    ELSE m_cachedBrowsers[e.browser].profiles[e.profileId].isDefault

Loaded == call.op = "ConfigManager"

\* line i of the loaded file is inside the nested block that line j opens
\* for browser b
InBlockOf(lines, j, i, b) ==
    /\ j < i
    /\ ~lines[j].skip /\ lines[j].key = b /\ lines[j].rest = <<>>
    /\ ~lines[i].skip
    /\ \A k \in (j + 1)..i : lines[k].skip \/ lines[k].indent > lines[j].indent

\* the file gives path p for browser b, inline or as path: in its block
PathGiven(lines, b, p) ==
    \E i \in 1..Len(lines) :
        /\ lines[i].rest # <<>>
        /\ Join(cleanValue(lines[i].rest)) = p
        /\ \/ ~lines[i].skip /\ lines[i].key = b
           \/ lines[i].key = "path" /\ \E j \in 1..Len(lines) : InBlockOf(lines, j, i, b)

\* the file gives enabled: with a recognised boolean of value v in the
\* block of browser b
EnabledGiven(lines, b, v) ==
    \E i, j \in 1..Len(lines) :
        /\ InBlockOf(lines, j, i, b)
        /\ lines[i].key = "enabled"
        /\ ToLower(cleanValue(lines[i].rest))
              \in (IF v THEN {Str_true, Str_yes, Str_on, <<"1">>}
                         ELSE {Str_false, Str_no, Str_off, <<"0">>})

\* C28: after the override file is loaded, the executable-override map has
\* keys only among firefox, chrome and chromium, each mapped to a path that
\* the file gives for it, inline or as nested path:, and that is an
\* existing executable file; the enabled-override map has an entry only
\* for a browser whose nested block gives enabled: with a recognised
\* boolean.  Other keys, other paths and other values leave no entry.
C28_OverridesValidated ==
    Loaded =>
        LET lines == YamlFile(yamlFiles).lines
        IN  /\ \A b \in DOMAIN m_browserExecOverrides :
                  /\ b \in {"firefox", "chrome", "chromium"}
                  /\ m_browserExecOverrides[b] \in fs.exec
                  /\ PathGiven(lines, b, m_browserExecOverrides[b])
            /\ \A b \in DOMAIN m_browserEnabledOverrides :
                  /\ b \in {"firefox", "chrome", "chromium"}
                  /\ EnabledGiven(lines, b, m_browserEnabledOverrides[b])

\* C28 witness: a nested block for chrome with an executable path and a
\* value of enabled: that is no boolean: the path is taken, the value is not
C28_Witness ==
    /\ Loaded
    /\ "chrome" \in DOMAIN m_browserExecOverrides
    /\ m_browserEnabledOverrides = EmptyMap
    /\ \E i \in 1..Len(YamlFile(yamlFiles).lines) :
          /\ YamlFile(yamlFiles).lines[i].key = "enabled"
          /\ ~parseBool(YamlFile(yamlFiles).lines[i].rest).ok

(***************************************************************************)
(* Claims about the command line (SpecUrlArg)                              *)
(***************************************************************************)
\* a bare host name: letters, digits, '-' and '.', and nothing else
HostLike(s) ==
    /\ s # <<>>
    /\ \A i \in 1..Len(s) : s[i] \in LowerLetters \cup UpperLetters \cup Digits \cup {"-", "."}

\* C30: a positional URL that contains "://" is passed on unchanged; one
\* that does not becomes "https://www." + url when it is a bare host name
\* and "https://" + url otherwise.
C30_UrlArgument ==
    txtOp = "urlArgument" =>
        txtStr = IF Contains(txtIn, <<":", "/", "/">>) THEN txtIn
                 ELSE IF HostLike(txtIn)
                 THEN Str_https \o <<":", "/", "/">> \o Str_www \o txtIn
                 ELSE Str_https \o <<":", "/", "/">> \o txtIn

(***************************************************************************)
(* Claims about deploying the defaults (SpecDeploy)                        *)
(***************************************************************************)
\* the configuration and the override files of ~/.config
FilesNow ==
    [rcFile |-> rcFile, cfgTimeout |-> cfgTimeout, cfgRemember |-> cfgRemember,
     yaml |-> yamlFiles.yaml, yml |-> yamlFiles.yml]

\* the last step was a run with --init-defaults that wrote what it set out
\* to write
Deployed == call.op = "initDefaults" /\ call.complete

\* that run found a configuration and an override file
FoundBoth ==
    /\ call.filesBefore.rcFile.exists
    /\ call.filesBefore.yaml.exists \/ call.filesBefore.yml.exists

\* a run without --force right after another run leaves the files as they
\* were
SecondRunWritesNothing == (Deployed /\ ~call.force /\ call.again) => FilesNow = call.filesBefore

\* a run with --force that found an override file has replaced it (the
\* .yaml file, or the .yml file when there is no .yaml file) by the
\* template and reports a change
ForceRewrites ==
    (Deployed /\ call.force /\ (call.filesBefore.yaml.exists \/ call.filesBefore.yml.exists)) =>
        /\ call.result
        /\ IF call.filesBefore.yaml.exists
           THEN yamlFiles.yaml = YamlTemplate /\ yamlFiles.yml = call.filesBefore.yml
           ELSE yamlFiles.yml = YamlTemplate /\ yamlFiles.yaml = call.filesBefore.yaml

CleanUrlChecked == txtOp = "isValidUrl" /\ txtIn # <<>> /\ ~HasForbiddenUrlChar(txtIn)

\* s is <allowed scheme>://<host>[/<path>] with a host of letters, digits,
\* '.' and '-' and a path of letters, digits, '.', '-' and '/'
SchemeAndHost(s) ==
    LET c     == IndexOf(s, {":"})
        after == SubSeq(s, c + 3, Len(s))
        slash == IndexOf(after, {"/"})
        host  == IF slash = 0 THEN after ELSE SubSeq(after, 1, slash - 1)
        plain == LowerLetters \cup UpperLetters \cup Digits \cup {".", "-"}
    IN  /\ SchemeOf(s) \in allowedSchemes
        /\ Len(s) >= c + 2 /\ SubSeq(s, c, c + 2) = <<":", "/", "/">>
        /\ host # <<>>
        /\ \A i \in 1..Len(host) : host[i] \in plain
        /\ \A i \in 1..Len(after) : after[i] \in plain \cup {"/"}

AtPositions(s, P) ==
    [i \in 1..Cardinality(P) |-> s[CHOOSE p \in P : Cardinality({q \in P : q <= p}) = i]]

\* the positions of s that are no NUL and lie between the first and the
\* last character that is neither NUL nor whitespace
InnerPositions(s) ==
    LET solid == {i \in 1..Len(s) : s[i] \notin SpaceChars \cup {"NUL"}}
    IN  {i \in 1..Len(s) : /\ s[i] # "NUL"
                           /\ \E j, k \in solid : j <= i /\ i <= k}

\* C32: sanitizeProfileName(x) is x with the NUL characters removed, the
\* surrounding whitespace trimmed and every character that is no letter,
\* digit, space, '.', '-' or '_' deleted, so it is empty or accepted by
\* isValidProfileName; sanitizeUrl(x) is x with the NUL characters removed
\* and the surrounding whitespace trimmed, every other character kept.
C32_SanitizersOnlyStrip ==
    /\ txtOp = "sanitizeProfileName" =>
          /\ txtStr = AtPositions(txtIn, {i \in InnerPositions(txtIn) :
                                             txtIn[i] \in LowerLetters \cup UpperLetters \cup Digits
                                                           \cup {" ", ".", "-", "_"}})
          /\ txtStr = <<>> \/ isValidProfileName(txtStr)
    /\ txtOp = "sanitizeUrl" => txtStr = AtPositions(txtIn, InnerPositions(txtIn))

\* C32 witness: a name with whitespace around it and a ';' in it became a
\* shorter name that is not empty
C32_Witness ==
    /\ txtOp = "sanitizeProfileName"
    /\ txtIn # <<>> /\ txtIn[1] \in SpaceChars
    /\ \E i \in 1..Len(txtIn) : txtIn[i] = ";"
    /\ txtStr # <<>>

(***************************************************************************)
(* Claims about isBrowserInstalled (SpecInstalled)                         *)
(***************************************************************************)
\* C33: isBrowserInstalled(b) is true exactly when a detectBrowsers() that
\* scans now, with the same overrides on the same filesystem, returns a map
\* with the key b.
C33_InstalledAgreesWithDiscovery ==
    call.op = "isBrowserInstalled" =>
        (call.result <=>
            call.browser \in DOMAIN ScanBrowsers(fs, m_execOverrides, m_enabledOverrides))

(***************************************************************************)
(* Further claims about the registry (SpecOrder, SpecRegistry)             *)
(***************************************************************************)
\* C34: after any sequence of refreshProfiles, setProfileDisplayName,
\* setProfileOrder, moveProfileUp and moveProfileDown the list is sorted
\* ascending by (order, browser id, profile display name).
C34_AlwaysSorted == IsSorted(m_profiles)

\* C35: after setProfileEnabled, setProfileDisplayName or setProfileOrder,
\* the enabled flag, the display name and the order of every entry of the
\* list are those of the entry that refreshProfiles would build now for
\* the same profile from the same discovery result and the configuration.
C35_ListAgreesWithConfig ==
    call.op \in {"setProfileEnabled", "setProfileDisplayName", "setProfileOrder"} =>
        \A i \in 1..Len(m_profiles) :
            LET e == m_profiles[i]
                r == EntryOf(cfgProfiles, e.browser, m_cachedBrowsers[e.browser], e.profileId)
            IN  /\ e.isEnabled = r.isEnabled
                /\ e.profileDisplayName = r.profileDisplayName
                /\ e.order = r.order

(***************************************************************************)
(* Further claims about launches (SpecLaunch, SpecReach)                   *)
(***************************************************************************)
\* C36: after a launchProfile that succeeded while remember-last-used is
\* on, the recorded last-used pair is the browser and the sanitized profile
\* id that launchBrowser looked up, which is a profile of the discovery
\* result.
C36_LastUsedIsLaunched ==
    (call.op = "launchProfile" /\ call.result /\ cfgRemember) =>
        /\ cfgLastUsed = [browser |-> call.browser,
                          profile |-> sanitizeProfileName(call.profile)]
        /\ cfgLastUsed.browser \in DOMAIN m_cachedBrowsers
        /\ cfgLastUsed.profile \in DOMAIN m_cachedBrowsers[cfgLastUsed.browser].profiles

\* C37: a launch of an entry of the registry, built from the discovery
\* result that is cached, with a valid URL never fails with the reason
\* invalid profile name or profile not found.
C37_RegistryEntriesLaunch ==
    call.op = "launchProfile" =>
        \A i \in 1..Len(call.launchFailed) :
            call.launchFailed[i].message
                \notin {"Invalid profile name: %1", "Profile %1 not found for browser %2"}

(***************************************************************************)
(* Further claims about the dialog (SpecDialog)                            *)
(***************************************************************************)
\* C38: in one session of the dialog, a browser process that was started
\* ends the session, so that no further launch follows it, and the
\* auto-select timeout makes no launch after a launch that the user made,
\* also when that launch failed and its message box is open.
C38_OneLaunchPerSession ==
    /\ (window # "none" /\ call.spawn # <<>>) => window = "accepted"
    /\ (call.op = "onTimeout" /\ call.browser # "") => ~call.userLaunched

=============================================================================
